---- MODULE Spec2Model ----
(***************************************************************************)
(* Model of github.com/dracory/uid: the UUID engine of uuid.go (clock      *)
(* sequence state, byte layouts of v1/v3/v4/v5/v6/v7, hex rendering) and   *)
(* the decimal identifier family of uid.go.                                *)
(*                                                                         *)
(* Representation.  A Go byte is a number in 0..255 and a []byte a         *)
(* sequence of them (Go's b[i] is b[i+1] here).  A Go string is a sequence *)
(* of one-character strings.  A uint64/uint32/uint16 that does not fit a   *)
(* 32-bit integer is a "word": the sequence of its hexadecimal digits,     *)
(* most significant first (16, 8 or 4 of them), so that shifts and masks   *)
(* by multiples of four bits are exact.  An instant of the wall clock is   *)
(* <<sec, nsec>>: Unix seconds and the nanoseconds within the second.      *)
(***************************************************************************)
EXTENDS Integers, Sequences, FiniteSets, TLC

\* ------------------------------------------------------------------ bounds
\* Calls started by the concurrent callers of the time-based generators.
MaxCalls == 2
\* Time-based calls of the caller that uses every generator.
GenCalls == 1
\* Clock readings offered to the UUID engine are Instant(0) .. Instant(MaxTick).
MaxTick == 1
\* Outcomes of a successful read of the random source are RandBytes(n, 0..MaxRand).
MaxRand == 1
\* Strings handed to formatWithHyphens have at most MaxLen characters,
MaxLen == 3
\* lists of group sizes at most MaxGroups entries,
MaxGroups == 3
\* and a group size is in -1 .. MaxSize.
MaxSize == 3
\* Calls each concurrent caller of SecUid/Timestamp makes,
MaxNaps == 2
\* and the half-seconds the clock they share advances.
MaxClock == 4
\* The first instant of the model, in Unix seconds (2025-12-31 23:59:59 UTC).
BaseSec == 1767225599

\* ------------------------------------------------------------- bit helpers
RECURSIVE BitAnd(_, _)
BitAnd(a, b) ==
    IF a = 0 \/ b = 0 THEN 0
    ELSE (a % 2) * (b % 2) + 2 * BitAnd(a \div 2, b \div 2)

RECURSIVE BitOr(_, _)
BitOr(a, b) ==
    IF a = 0 THEN b
    ELSE IF b = 0 THEN a
    ELSE (IF a % 2 = 1 \/ b % 2 = 1 THEN 1 ELSE 0) + 2 * BitOr(a \div 2, b \div 2)

\* byte(x): the conversion of an integer to a Go byte keeps the low 8 bits.
ToByte(x) == x % 256

\* ------------------------------------------------------------------ words
\* The word of n hexadecimal digits holding the integer v (v < 2^31).
RECURSIVE WordOf(_, _)
WordOf(v, n) ==
    IF n = 0 THEN << >> ELSE Append(WordOf(v \div 16, n - 1), v % 16)

ZeroWord == WordOf(0, 16)

\* w * m + c modulo 2^(4*Len(w)), for small m and c (schoolbook, digit i downwards).
RECURSIVE MulAddFrom(_, _, _, _)
MulAddFrom(w, m, c, i) ==
    IF i = 0 THEN w
    ELSE LET v == w[i] * m + c
         IN  MulAddFrom([w EXCEPT ![i] = v % 16], m, v \div 16, i - 1)

WordMulAdd(w, m, c) == MulAddFrom(w, m, c, Len(w))

\* x + y modulo 2^(4*Len(x)), x and y words of the same length.
RECURSIVE AddFrom(_, _, _, _)
AddFrom(x, y, c, i) ==
    IF i = 0 THEN x
    ELSE LET v == x[i] + y[i] + c
         IN  AddFrom([x EXCEPT ![i] = v % 16], y, v \div 16, i - 1)

WordAdd(x, y) == AddFrom(x, y, 0, Len(x))

\* x < y and x <= y on words of the same length (unsigned comparison).
RECURSIVE WordLessFrom(_, _, _)
WordLessFrom(x, y, i) ==
    IF i > Len(x) THEN FALSE
    ELSE IF x[i] # y[i] THEN x[i] < y[i]
    ELSE WordLessFrom(x, y, i + 1)

WordLess(x, y) == WordLessFrom(x, y, 1)

WordLeq(x, y) == x = y \/ WordLess(x, y)

\* (w >> shift) truncated to `digits` hexadecimal digits; shift a multiple of 4.
\* Digits shifted in from above the word are zero.
WordBits(w, shift, digits) ==
    LET last == Len(w) - shift \div 4
    IN  [k \in 1..digits |->
            LET i == last - digits + k IN IF i >= 1 THEN w[i] ELSE 0]

\* binary.BigEndian.PutUint16/32/64: the bytes of a word, most significant first.
WordBytes(w) == [k \in 1..(Len(w) \div 2) |-> w[2 * k - 1] * 16 + w[2 * k]]

\* w | mask and w & mask, digit by digit.
WordOr(w, mask) == [k \in 1..Len(w) |-> BitOr(w[k], mask[k])]

WordAnd(w, mask) == [k \in 1..Len(w) |-> BitAnd(w[k], mask[k])]

\* ------------------------------------------------------------- the clock
\* time.Now() as <<sec, nsec>>.
Instant(k) == << BaseSec + 27 * (k \div 2), 1 + 150 * (k % 2) >>

ClockInstants == { Instant(k) : k \in 0..MaxTick }

\* uint64(time.Now().UnixNano()) = sec * 10^9 + nsec, as a 64-bit word.
UnixNano(now) == WordMulAdd(WordMulAdd(WordOf(now[1], 16), 100000, 0), 10000, now[2])

\* uint64(time.Now().UnixMilli()) = sec * 1000 + nsec / 10^6.
UnixMilli(now) == WordMulAdd(WordOf(now[1], 16), 1000, now[2] \div 1000000)

\* const gregorianToUnix100ns = 122192928000000000 = 0x01B21DD213814000.
gregorianToUnix100ns == << 0, 1, 11, 2, 1, 13, 13, 2, 1, 3, 8, 1, 4, 0, 0, 0 >>

\* now100ns(): ns/100 + gregorianToUnix100ns.  sec * 10^9 is a multiple of 100, so
\* ns/100 = sec * 10^7 + nsec / 100.
now100ns(now) ==
    WordAdd(WordMulAdd(WordOf(now[1], 16), 10000000, now[2] \div 100),
            gregorianToUnix100ns)

\* ------------------------------------------------------- the random source
\* What a successful crypto/rand.Read of n bytes can deliver: all bits clear
\* (k = 0), all bits set (k = 1), and mixed patterns (k > 1).
RandBytes(n, k) ==
    [i \in 1..n |-> IF k = 0 THEN 0 ELSE IF k = 1 THEN 255 ELSE (83 * k + 29 * i) % 256]

ZeroBytes(n) == [i \in 1..n |-> 0]

\* What a failed read leaves in a zeroed buffer: nothing, or a filled prefix.
PartialBytes(n) == [i \in 1..n |-> IF 2 * i <= n THEN 255 ELSE 0]

\* rand.Read(buf) on a zeroed buffer of n bytes: [ok, buf].  ok is err == nil.
RandOutcomes(n) ==
    { [ok |-> TRUE, buf |-> RandBytes(n, k)] : k \in 0..MaxRand }
        \cup { [ok |-> FALSE, buf |-> ZeroBytes(n)], [ok |-> FALSE, buf |-> PartialBytes(n)] }

\* ------------------------------------------------------------ the encoder
hextable == << "0", "1", "2", "3", "4", "5", "6", "7",
               "8", "9", "a", "b", "c", "d", "e", "f" >>

\* hex.Encode: two characters per byte, hextable[v>>4] then hextable[v&0x0f].
HexEncode(b) ==
    [k \in 1..(2 * Len(b)) |->
        LET v == b[(k + 1) \div 2]
        IN  IF k % 2 = 1 THEN hextable[(v \div 16) + 1] ELSE hextable[BitAnd(v, 15) + 1]]

\* A variant of the encoder whose second group is five characters long.
bytesToUUIDString_Shifted(b, withHyphens) ==
    LET hexstr == HexEncode(b)
    IN  IF ~withHyphens THEN hexstr
        ELSE SubSeq(hexstr, 1, 8) \o << "-" >> \o SubSeq(hexstr, 9, 13) \o << "-" >>
                 \o SubSeq(hexstr, 14, 16) \o << "-" >> \o SubSeq(hexstr, 17, 20)
                 \o << "-" >> \o SubSeq(hexstr, 21, 32)

\* bytesToUUIDString(b, withHyphens), b of 16 bytes.
bytesToUUIDString(b, withHyphens) ==
    LET hexstr == HexEncode(b)
    IN  IF ~withHyphens THEN hexstr
        ELSE SubSeq(hexstr, 1, 8) \o << "-" >> \o SubSeq(hexstr, 9, 12) \o << "-" >>
                 \o SubSeq(hexstr, 13, 16) \o << "-" >> \o SubSeq(hexstr, 17, 20)
                 \o << "-" >> \o SubSeq(hexstr, 21, 32)

\* strings.ReplaceAll(s, "-", "").
RemoveHyphens(s) == SelectSeq(s, LAMBDA c : c # "-")

\* withHyphens := len(formatted) > 0 && formatted[0], formatted the variadic ...bool.
WithHyphens(formatted) == Len(formatted) > 0 /\ formatted[1]

FormattedArgs == { << >>, << TRUE >>, << FALSE >> }

\* ---------------------------------------------------------- the field packer
\* A variant of setVariantRFC4122 that sets the top bit and clears none.
setVariantRFC4122_NoMask(b) == [b EXCEPT ![9] = BitOr(b[9], 128)]

\* setVariantRFC4122(b): b[8] &= 0x3F; b[8] |= 0x80.
setVariantRFC4122(b) == [b EXCEPT ![9] = BitOr(BitAnd(b[9], 63), 128)]

\* A variant of setVersion that assigns byte 6 instead of masking it.
setVersion_Assign(b, ver) == [b EXCEPT ![7] = BitAnd(ToByte(ver * 16), 240)]

\* setVersion(b, ver): b[6] &= 0x0F; b[6] |= byte(ver<<4) & 0xF0.
setVersion(b, ver) ==
    [b EXCEPT ![7] = BitOr(BitAnd(b[7], 15), BitAnd(ToByte(ver * 16), 240))]

\* ------------------------------------------------------------ the generators
\* A variant of newV4 that keeps the buffer of a failed read.
newV4_NoFallback(rd, now1, now2) == setVariantRFC4122(setVersion(rd.buf, 4))

\* newV4(): rd the outcome of rand.Read(b), now1 and now2 the two readings of the
\* clock the fallback takes.
newV4(rd, now1, now2) ==
    LET b == IF rd.ok THEN rd.buf
             ELSE WordBytes(UnixNano(now1)) \o WordBytes(UnixNano(now2))
    IN  setVariantRFC4122(setVersion(b, 4))

\* The ten bytes r of newV7: rd the outcome of rand.Read(r[:]), nowF the reading
\* of the clock the fallback takes.
V7Random(rd, nowF) ==
    IF rd.ok THEN rd.buf ELSE SubSeq(rd.buf, 1, 2) \o WordBytes(UnixNano(nowF))

\* A variant of V7Layout that stores the timestamp least significant byte first.
V7Layout_LittleEndian(ts, r) ==
    LET be == WordBytes(WordBits(ts, 0, 12))
    IN  [k \in 1..6 |-> be[7 - k]]
            \o << BitOr(112, BitAnd(r[1], 15)), r[2], BitOr(BitAnd(r[3], 63), 128) >>
            \o SubSeq(r, 4, 10)

\* The byte layout of newV7: ts the Unix time in ms, r the ten bytes.
V7Layout(ts, r) ==
    WordBytes(WordBits(ts, 0, 12))
        \o << BitOr(112, BitAnd(r[1], 15)), r[2], BitOr(BitAnd(r[3], 63), 128) >>
        \o SubSeq(r, 4, 10)

\* newV7(): now the reading of the clock.
newV7(now, rd, nowF) == V7Layout(UnixMilli(now), V7Random(rd, nowF))

\* A variant of V1Layout with time_mid and time_hi_and_version exchanged.
V1Layout_MidHigh(t, cs, node) ==
    LET tl == WordBits(t, 0, 8)
        tm == WordBits(t, 32, 4)
        th == WordOr(WordAnd(WordBits(t, 48, 4), << 0, 15, 15, 15 >>), << 1, 0, 0, 0 >>)
    IN  WordBytes(tl) \o WordBytes(th) \o WordBytes(tm)
            \o << BitOr(ToByte(BitAnd(cs \div 256, 63)), 128), ToByte(cs) >>
            \o node

\* A variant of V6Layout that keeps the field order of v1 (time_low first).
V6Layout_LowFirst(t, cs, node) ==
    LET tl == WordBits(t, 0, 8)
        tm == WordBits(t, 32, 4)
        th == WordOr(WordAnd(WordBits(t, 48, 4), << 0, 15, 15, 15 >>), << 6, 0, 0, 0 >>)
    IN  WordBytes(tl) \o WordBytes(tm) \o WordBytes(th)
            \o << BitOr(ToByte(BitAnd(cs \div 256, 63)), 128), ToByte(cs) >>
            \o node

\* The byte layout of newV1 after its critical section: t the timestamp, cs the
\* clock sequence, node the six bytes of nodeIDData.
V1Layout(t, cs, node) ==
    LET tl == WordBits(t, 0, 8)
        tm == WordBits(t, 32, 4)
        th == WordOr(WordAnd(WordBits(t, 48, 4), << 0, 15, 15, 15 >>), << 1, 0, 0, 0 >>)
    IN  WordBytes(tl) \o WordBytes(tm) \o WordBytes(th)
            \o << BitOr(ToByte(BitAnd(cs \div 256, 63)), 128), ToByte(cs) >>
            \o node

\* The byte layout of newV6 after its critical section.
V6Layout(t, cs, node) ==
    LET th == WordBits(t, 28, 8)
        tm == WordBits(t, 12, 4)
        tl == WordOr(WordAnd(WordBits(t, 0, 4), << 0, 15, 15, 15 >>), << 6, 0, 0, 0 >>)
    IN  WordBytes(th) \o WordBytes(tm) \o WordBytes(tl)
            \o << BitOr(ToByte(BitAnd(cs \div 256, 63)), 128), ToByte(cs) >>
            \o node

\* ------------------------------------------------------- name-based (v3, v5)
\* crypto/md5 and crypto/sha1 are external primitives.  They are modelled as fixed
\* functions of the bytes written: a 16-byte and a 20-byte digest.
RECURSIVE Mix(_, _)
Mix(msg, acc) ==
    IF msg = << >> THEN acc
    ELSE Mix(Tail(msg), (acc * 31 + Head(msg) + 7) % 65521)

md5Sum(msg) == LET m == Mix(msg, 1) IN [i \in 1..16 |-> (m * (i + 1) + i * i) % 256]

sha1Sum(msg) == LET m == Mix(msg, 2) IN [i \in 1..20 |-> (m * (i + 3) + 5 * i) % 256]

\* A result (string, error) of a generator that can fail.
Ok(val) == [val |-> val, err |-> FALSE]

Fail == [val |-> << >>, err |-> TRUE]

\* The 16 bytes UuidV3 renders: sum := h.Sum(nil)[:16] of md5 over namespace then
\* data, stamped by setVersion(sum, 3) and setVariantRFC4122(sum).
V3Payload(namespace, data) ==
    setVariantRFC4122(setVersion(SubSeq(md5Sum(namespace \o data), 1, 16), 3))

\* The 16 bytes UuidV5 renders: the first 16 bytes of the sha1 digest, stamped.
V5Payload(namespace, data) ==
    setVariantRFC4122(setVersion(SubSeq(sha1Sum(namespace \o data), 1, 16), 5))

\* A variant of UuidV3 that rejects only namespaces shorter than 16 bytes.
UuidV3_AtLeast16(namespace, data, formatted) ==
    IF Len(namespace) < 16 THEN Fail
    ELSE Ok(bytesToUUIDString(V3Payload(namespace, data), WithHyphens(formatted)))

\* UuidV3(namespace, data, formatted...), namespace as its bytes.
UuidV3(namespace, data, formatted) ==
    IF Len(namespace) # 16 THEN Fail
    ELSE Ok(bytesToUUIDString(V3Payload(namespace, data), WithHyphens(formatted)))

\* UuidV5(namespace, data, formatted...).
UuidV5(namespace, data, formatted) ==
    IF Len(namespace) # 16 THEN Fail
    ELSE Ok(bytesToUUIDString(V5Payload(namespace, data), WithHyphens(formatted)))

\* The earlier API of the package: UuidV3Formatted(namespace, data) and the
\* wrapper UuidV3(namespace, data) that strips its hyphens (UuidV3Stripped here).
UuidV3Formatted(namespace, data) ==
    IF Len(namespace) # 16 THEN Fail
    ELSE Ok(bytesToUUIDString(V3Payload(namespace, data), TRUE))

UuidV3Stripped(namespace, data) ==
    LET r == UuidV3Formatted(namespace, data)
    IN  IF r.err THEN Fail ELSE Ok(RemoveHyphens(r.val))

UuidV5Formatted(namespace, data) ==
    IF Len(namespace) # 16 THEN Fail
    ELSE Ok(bytesToUUIDString(V5Payload(namespace, data), TRUE))

UuidV5Stripped(namespace, data) ==
    LET r == UuidV5Formatted(namespace, data)
    IN  IF r.err THEN Fail ELSE Ok(RemoveHyphens(r.val))

\* Namespace arguments: two of 16 bytes, "short", the empty string, one of 17 bytes.
Namespaces ==
    { [i \in 1..16 |-> i], [i \in 1..16 |-> 255 - i], << 115, 104, 111, 114, 116 >>,
      << >>, [i \in 1..17 |-> i] }

\* Data arguments: empty, "name", "nbme".
DataArgs == { << >>, << 110, 97, 109, 101 >>, << 110, 98, 109, 101 >> }

\* ------------------------------------------------- node identity, clock seed
\* net.Interfaces(): an error, or the hardware addresses of the interfaces.
InterfaceOutcomes ==
    { [err |-> TRUE, hw |-> << >>],
      [err |-> FALSE, hw |-> << >>],
      [err |-> FALSE, hw |-> << << >>, << 2, 0, 0, 0, 0, 0, 0, 1 >> >>],
      [err |-> FALSE, hw |-> << << >>, << 0, 27, 33, 60, 77, 94 >>, << 0, 1, 2, 3, 4, 5 >> >>] }

\* systemNodeID(): the first hardware address of six bytes, [b, ok].
RECURSIVE FirstSixBytes(_)
FirstSixBytes(hw) ==
    IF hw = << >> THEN [b |-> << >>, ok |-> FALSE]
    ELSE IF Len(Head(hw)) = 6 THEN [b |-> Head(hw), ok |-> TRUE]
    ELSE FirstSixBytes(Tail(hw))

systemNodeID(ifs) ==
    IF ifs.err THEN [b |-> << >>, ok |-> FALSE] ELSE FirstSixBytes(ifs.hw)

\* initState, first half: the value of nodeIDData.  ifs is the outcome of
\* net.Interfaces(), rd the outcome of rand.Read(nodeIDData[:]).
InitNodeID(ifs, rd) ==
    LET nid == systemNodeID(ifs)
    IN  IF nid.ok THEN nid.b
        ELSE IF rd.ok THEN [rd.buf EXCEPT ![1] = BitOr(rd.buf[1], 1)]
        ELSE rd.buf

\* The integer a word of at most seven hexadecimal digits holds.
RECURSIVE WordVal(_)
WordVal(w) == IF w = << >> THEN 0 ELSE 16 * WordVal(SubSeq(w, 1, Len(w) - 1)) + w[Len(w)]

\* initState, second half: the value of clockSeq.  rd is the outcome of
\* rand.Read(b[:]) on two bytes, now the reading of the clock of the fallback.
InitClockSeq(rd, now) ==
    IF rd.ok THEN BitAnd(rd.buf[1] * 256 + rd.buf[2], 16383)
    ELSE BitAnd(WordVal(WordBits(UnixNano(now), 0, 4)), 16383)

\* A variant of the critical section that tests t < lastTime.
NextClockSeq_Strict(t, last, seq) ==
    IF WordLess(t, last) THEN BitAnd((seq + 1) % 65536, 16383) ELSE seq

\* A variant of the critical section that never advances clockSeq.
NextClockSeq_Keep(t, last, seq) == seq

\* A variant of the critical section that increments without the mask 0x3FFF.
NextClockSeq_NoMask(t, last, seq) ==
    IF WordLeq(t, last) THEN (seq + 1) % 65536 ELSE seq

\* The critical section's update of clockSeq: if t <= lastTime then
\* clockSeq = (clockSeq + 1) & 0x3FFF (uint16 arithmetic).
NextClockSeq(t, last, seq) ==
    IF WordLeq(t, last) THEN BitAnd((seq + 1) % 65536, 16383) ELSE seq

\* A variant of the critical section that keeps the stored timestamp when the
\* reading is below it.
NextLastTime_Keep(t, last) == IF WordLess(t, last) THEN last ELSE t

\* The critical section's update of lastTime: lastTime = t.
NextLastTime(t, last) == t

\* ------------------------------------------------------------------ state
VARIABLES
    onceInit,    \* sync.Once: "new", "running" (initState is executing), "done"
    nodeIDData,  \* [6]byte
    clockSeq,    \* uint16, 14 bits used
    mu,          \* sync.Mutex: 0 when free, else the caller holding it
    lastTime,    \* uint64, as a word
    pc,          \* per caller: where it is in newV1/newV6
    loc,         \* per caller: the locals of its call
    calls,       \* number of calls started
    issued,      \* history: the time-based identifiers, in order of completion
    wraps,       \* history: how often clockSeq wrapped from 0x3FFF to 0
    initRuns,    \* history: how often initState ran to completion
    ret,         \* the value most recently returned by a generator
    peer,        \* what is kept of the previous process: a name-based result and
                 \* the clock state under which it was computed
    dec,         \* the decimal identifiers the caller holds, oldest first
    fmt,         \* the call of formatWithHyphens most recently made, with its outcome
    lay,         \* the payloads most recently laid out from given field values
    nap,         \* the concurrent callers of SecUid/Timestamp and the clock they share
    stamp        \* the call of setVersion/setVariantRFC4122 most recently made on a
                 \* given buffer, with the buffer it left

vars == << onceInit, nodeIDData, clockSeq, mu, lastTime, pc, loc, calls, issued,
           wraps, initRuns, ret, peer, dec, fmt, lay, nap, stamp >>

\* The concurrent callers of the UUID engine.
Procs == {1, 2}

\* The locals of a call: ver, the flag, t and cs, and ok of initState (whether
\* systemNodeID() gave a hardware address) when the call runs it; and as history, how many
\* identifiers had been issued when it was entered, the wraps of clockSeq up to its
\* critical section, and (lastTime, clockSeq) as its critical section left them.
NoLoc == [ver |-> 0, hyph |-> FALSE, t |-> ZeroWord, cs |-> 0, began |-> 0, wraps |-> 0,
          left |-> << ZeroWord, 0 >>, ok |-> FALSE]

\* A returned value: the generator, whether hyphens were asked for, the payload b,
\* the string val and the error; and of the call, the namespace and data
\* arguments, whether its read of the random source succeeded, and the clock
\* readings it took (of a time-based call: the reading of its critical section,
\* then the reading of initState when the clock sequence was seeded from it).
NoRet == [gen |-> "none", hyph |-> FALSE, b |-> << >>, val |-> << >>, err |-> FALSE,
          ns |-> << >>, data |-> << >>, rdOk |-> TRUE, nows |-> << >>]

\* What UuidV1(formatted...) and UuidV6(formatted...) return: bytesToUUIDString
\* of the payload.
Returned(gen, hyph, b) ==
    [NoRet EXCEPT !.gen = gen, !.hyph = hyph, !.b = b,
                  !.val = bytesToUUIDString(b, hyph)]

\* No call of formatWithHyphens has been made.
NoFmt == [fn |-> "none", s |-> << >>, groups |-> << >>, panic |-> FALSE, val |-> << >>]

\* No payload has been laid out.  Otherwise: the generator, whether hyphens were
\* asked for, and of one or two payloads the timestamp t (a word), the clock
\* sequence cs, the node (for v7: the ten bytes r), the bytes b and the string val.
NoLay == [fn |-> "none", hyph |-> FALSE,
          t1 |-> ZeroWord, cs1 |-> 0, n1 |-> << >>, b1 |-> << >>, val1 |-> << >>,
          t2 |-> ZeroWord, cs2 |-> 0, n2 |-> << >>, b2 |-> << >>, val2 |-> << >>]

\* Nothing is kept of a previous process.
NoPeer == [res |-> NoRet, seq |-> 0, last |-> ZeroWord]

\* The state of a process before its first call.
\* setVersion/setVariantRFC4122 has not been called on a given buffer.
NoStamp == [fn |-> "none", ver |-> 0, b |-> << >>, out |-> << >>]

\* No caller of SecUid/Timestamp has started: the clock is at its first instant.
NoNap == [clock |-> 0,
          at    |-> [p \in Procs |-> "idle"],
          call  |-> [p \in Procs |-> [fn |-> "none", formatted |-> << >>, start |-> 0, woke |-> 0]],
          out   |-> [p \in Procs |-> << >>]]

Init ==
    /\ onceInit = "new"
    /\ nodeIDData = ZeroBytes(6)
    /\ clockSeq = 0
    /\ mu = 0
    /\ lastTime = ZeroWord
    /\ pc = [p \in Procs |-> "idle"]
    /\ loc = [p \in Procs |-> NoLoc]
    /\ calls = 0
    /\ issued = << >>
    /\ wraps = 0
    /\ initRuns = 0
    /\ ret = NoRet
    /\ peer = NoPeer
    /\ dec = << >>
    /\ fmt = NoFmt
    /\ lay = NoLay
    /\ nap = NoNap
    /\ stamp = NoStamp

\* --------------------------------------- newV1 / newV6, one step per statement
\* now100ns() at each reading of the clock, and the seed of clockSeq for each
\* outcome of the random read and reading of the clock: computed once.
Ticks == [now \in ClockInstants |-> now100ns(now)]

ClockSeeds == [rd \in RandOutcomes(2), now \in ClockInstants |-> InitClockSeq(rd, now)]

\* UuidV1(formatted...) / UuidV6(formatted...) is entered: ver is 1 or 6.
Call(p, ver, formatted) ==
    /\ pc[p] = "idle"
    /\ calls < MaxCalls
    /\ calls' = calls + 1
    /\ loc' = [loc EXCEPT ![p] = [NoLoc EXCEPT !.ver = ver,
                                               !.hyph = WithHyphens(formatted),
                                               !.began = Len(issued)]]
    /\ pc' = [pc EXCEPT ![p] = "once"]
    /\ UNCHANGED << onceInit, nodeIDData, clockSeq, mu, lastTime, issued, wraps,
                    initRuns, ret, peer, dec, fmt, lay, nap, stamp >>

\* onceInit.Do(initState): the first caller starts initState.
OnceFirst(p) ==
    /\ pc[p] = "once"
    /\ onceInit = "new"
    /\ onceInit' = "running"
    /\ pc' = [pc EXCEPT ![p] = "initNode"]
    /\ UNCHANGED << nodeIDData, clockSeq, mu, lastTime, loc, calls, issued, wraps,
                    initRuns, ret, peer, dec, fmt, lay, nap, stamp >>

\* A variant of Do that lets a later caller through while initState is running.
OnceDone_Early(p) ==
    /\ pc[p] = "once"
    /\ onceInit # "new"
    /\ pc' = [pc EXCEPT ![p] = "lock"]
    /\ UNCHANGED << onceInit, nodeIDData, clockSeq, mu, lastTime, loc, calls, issued,
                    wraps, initRuns, ret, peer, dec, fmt, lay, nap, stamp >>

\* onceInit.Do(initState): a later caller returns once initState has completed
\* (and blocks while it is running).
OnceDone(p) ==
    /\ pc[p] = "once"
    /\ onceInit = "done"
    /\ pc' = [pc EXCEPT ![p] = "lock"]
    /\ UNCHANGED << onceInit, nodeIDData, clockSeq, mu, lastTime, loc, calls, issued,
                    wraps, initRuns, ret, peer, dec, fmt, lay, nap, stamp >>

\* initState: the node identifier.
InitNode(p, ifs, rd) ==
    /\ pc[p] = "initNode"
    /\ nodeIDData' = InitNodeID(ifs, rd)
    /\ loc' = [loc EXCEPT ![p].ok = systemNodeID(ifs).ok]
    /\ pc' = [pc EXCEPT ![p] = "initSeq"]
    /\ UNCHANGED << onceInit, clockSeq, mu, lastTime, calls, issued, wraps,
                    initRuns, ret, peer, dec, fmt, lay, nap, stamp >>

\* initState: the clock sequence; Do returns.
InitSeq(p, rd, now) ==
    /\ pc[p] = "initSeq"
    /\ clockSeq' = ClockSeeds[rd, now]
    /\ onceInit' = "done"
    /\ initRuns' = initRuns + 1
    /\ loc' = [loc EXCEPT ![p].ok = FALSE]
    /\ pc' = [pc EXCEPT ![p] = "lock"]
    /\ UNCHANGED << nodeIDData, mu, lastTime, calls, issued, wraps, ret, peer, dec, fmt, lay, nap, stamp >>

\* A variant of Lock that does not wait for the mutex to be free.
Lock_NoWait(p) ==
    /\ pc[p] = "lock"
    /\ mu' = p
    /\ pc' = [pc EXCEPT ![p] = "update"]
    /\ UNCHANGED << onceInit, nodeIDData, clockSeq, lastTime, loc, calls, issued,
                    wraps, initRuns, ret, peer, dec, fmt, lay, nap, stamp >>

\* mu.Lock().
Lock(p) ==
    /\ pc[p] = "lock"
    /\ mu = 0
    /\ mu' = p
    /\ pc' = [pc EXCEPT ![p] = "update"]
    /\ UNCHANGED << onceInit, nodeIDData, clockSeq, lastTime, loc, calls, issued,
                    wraps, initRuns, ret, peer, dec, fmt, lay, nap, stamp >>

\* t := now100ns(); if t <= lastTime { clockSeq = (clockSeq + 1) & 0x3FFF };
\* lastTime = t.  now is the reading of the clock.
Update(p, now) ==
    /\ pc[p] = "update"
    /\ LET t == Ticks[now]
       IN  /\ clockSeq' = NextClockSeq(t, lastTime, clockSeq)
           /\ lastTime' = NextLastTime(t, lastTime)
           /\ wraps' = IF clockSeq' < clockSeq THEN wraps + 1 ELSE wraps
           /\ loc' = [loc EXCEPT ![p].t = t, ![p].wraps = wraps']
    /\ pc' = [pc EXCEPT ![p] = "load"]
    /\ UNCHANGED << onceInit, nodeIDData, mu, calls, issued, initRuns, ret, peer, dec, fmt, lay, nap, stamp >>

\* cs := clockSeq.
LoadSeq(p) ==
    /\ pc[p] = "load"
    /\ loc' = [loc EXCEPT ![p].cs = clockSeq]
    /\ pc' = [pc EXCEPT ![p] = "unlock"]
    /\ UNCHANGED << onceInit, nodeIDData, clockSeq, mu, lastTime, calls, issued,
                    wraps, initRuns, ret, peer, dec, fmt, lay, nap, stamp >>

\* A variant of Unlock that leaves the mutex held.
Unlock_Held(p) ==
    /\ pc[p] = "unlock"
    /\ loc' = [loc EXCEPT ![p].left = << lastTime, clockSeq >>]
    /\ pc' = [pc EXCEPT ![p] = "build"]
    /\ UNCHANGED << onceInit, nodeIDData, clockSeq, mu, lastTime, calls, issued,
                    wraps, initRuns, ret, peer, dec, fmt, lay, nap, stamp >>

\* mu.Unlock().
Unlock(p) ==
    /\ pc[p] = "unlock"
    /\ mu' = 0
    /\ loc' = [loc EXCEPT ![p].left = << lastTime, clockSeq >>]
    /\ pc' = [pc EXCEPT ![p] = "build"]
    /\ UNCHANGED << onceInit, nodeIDData, clockSeq, lastTime, calls, issued,
                    wraps, initRuns, ret, peer, dec, fmt, lay, nap, stamp >>

\* The rest of newV1/newV6 and the rendering of UuidV1/UuidV6; b is the payload.
Build(p) ==
    /\ pc[p] = "build"
    /\ \E b \in { IF loc[p].ver = 1 THEN V1Layout(loc[p].t, loc[p].cs, nodeIDData)
                  ELSE V6Layout(loc[p].t, loc[p].cs, nodeIDData) } :
       LET gen == IF loc[p].ver = 1 THEN "v1" ELSE "v6"
       IN  /\ ret' = Returned(gen, loc[p].hyph, b)
           /\ issued' = Append(issued, [gen |-> gen, b |-> b,
                                        began |-> loc[p].began,
                                        wraps |-> loc[p].wraps,
                                        left |-> loc[p].left])
    /\ pc' = [pc EXCEPT ![p] = "idle"]
    /\ loc' = [loc EXCEPT ![p] = NoLoc]
    /\ UNCHANGED << onceInit, nodeIDData, clockSeq, mu, lastTime, calls, wraps,
                    initRuns, peer, dec, fmt, lay, nap, stamp >>

\* The environment of initState in the specification of the concurrent callers: a
\* hardware address is found, or none is and the random source delivers or fails;
\* the clock sequence is seeded with 0, with 0x3FFF, or from the clock.
EngineNodeInputs ==
    { << ifs, rd >> \in InterfaceOutcomes \X RandOutcomes(6) :
        \/ ~ifs.err /\ Len(ifs.hw) = 3 /\ rd.ok /\ rd.buf = RandBytes(6, 0)
        \/ ifs.err /\ rd.buf \in {RandBytes(6, 0), PartialBytes(6)} }

EngineSeqInputs ==
    { rd \in RandOutcomes(2) : rd.buf \in {RandBytes(2, 0), RandBytes(2, 1)} }

\* The concurrent callers of the time-based generators.
Next ==
    \/ \E p \in Procs, ver \in {1, 6} : Call(p, ver, << >>)
    \/ \E p \in Procs : OnceFirst(p)
    \/ \E p \in Procs : OnceDone(p)
    \/ \E p \in Procs, in \in EngineNodeInputs : InitNode(p, in[1], in[2])
    \/ \E p \in Procs, rd \in EngineSeqInputs : InitSeq(p, rd, Instant(0))
    \/ \E p \in Procs : Lock(p)
    \/ \E p \in Procs, now \in ClockInstants : Update(p, now)
    \/ \E p \in Procs : LoadSeq(p)
    \/ \E p \in Procs : Unlock(p)
    \/ \E p \in Procs : Build(p)

Spec == Init /\ [][Next]_vars

\* A step of caller p inside a call it has started, mu.Lock() apart.
Step(p) ==
    \/ OnceFirst(p)
    \/ OnceDone(p)
    \/ \E in \in EngineNodeInputs : InitNode(p, in[1], in[2])
    \/ \E rd \in EngineSeqInputs : InitSeq(p, rd, Instant(0))
    \/ \E now \in ClockInstants : Update(p, now)
    \/ LoadSeq(p)
    \/ Unlock(p)
    \/ Build(p)

\* The scheduler: a goroutine that can run is run (weak fairness of each caller's
\* steps), and a goroutine waiting in mu.Lock() gets the mutex after finitely many
\* releases (sync.Mutex hands the mutex to the longest waiter once it has waited
\* 1 ms: strong fairness of Lock).
Fairness == \A p \in Procs : WF_vars(Step(p)) /\ SF_vars(Lock(p))

\* The concurrent callers in one environment of initState (no hardware address,
\* both random reads fail): no guard of a step reads the node, the clock
\* sequence or a timestamp, so the environment does not change which steps can
\* be taken.
NextFair ==
    \/ \E p \in Procs, ver \in {1, 6} : Call(p, ver, << >>)
    \/ \E p \in Procs : OnceFirst(p)
    \/ \E p \in Procs : OnceDone(p)
    \/ \E p \in Procs :
            InitNode(p, [err |-> TRUE, hw |-> << >>], [ok |-> FALSE, buf |-> ZeroBytes(6)])
    \/ \E p \in Procs : InitSeq(p, [ok |-> FALSE, buf |-> ZeroBytes(2)], Instant(0))
    \/ \E p \in Procs : Lock(p)
    \/ \E p \in Procs, now \in ClockInstants : Update(p, now)
    \/ \E p \in Procs : LoadSeq(p)
    \/ \E p \in Procs : Unlock(p)
    \/ \E p \in Procs : Build(p)

\* The concurrent callers under a fair scheduler.
SpecFair == Init /\ [][NextFair]_vars /\ Fairness

\* ------------------------------------- one caller, every generator, one step each
\* The two APIs of the package.  "variadic": UuidVn(formatted ...bool) renders with
\* bytesToUUIDString(b, withHyphens).  "legacy": UuidVnFormatted() renders with
\* bytesToUUIDString(b, true) and UuidVn() strips the hyphens from it.
Apis == { "variadic", "legacy" }

Render(api, b, hyph) ==
    IF api = "variadic" THEN bytesToUUIDString(b, hyph)
    ELSE IF hyph THEN bytesToUUIDString(b, TRUE)
    ELSE RemoveHyphens(bytesToUUIDString(b, TRUE))

\* newV1()/newV6() of a caller running alone: onceInit.Do(initState) and the
\* critical section.  first is the environment of initState, read when it runs.
TimeBased(api, ver, formatted, first, now) ==
    /\ ret = NoRet
    /\ calls < GenCalls
    /\ calls' = calls + 1
    /\ onceInit = "done" => first = << >>
    /\ onceInit = "new" => first # << >>
    /\ LET node == IF onceInit = "new" THEN InitNodeID(first[1], first[2]) ELSE nodeIDData
           seq  == IF onceInit = "new" THEN InitClockSeq(first[3], first[4]) ELSE clockSeq
           t    == now100ns(now)
           cs   == NextClockSeq(t, lastTime, seq)
           b    == IF ver = 1 THEN V1Layout(t, cs, node) ELSE V6Layout(t, cs, node)
       IN  /\ nodeIDData' = node
           /\ clockSeq' = cs
           /\ lastTime' = NextLastTime(t, lastTime)
           /\ wraps' = IF cs < seq THEN wraps + 1 ELSE wraps
           /\ initRuns' = IF onceInit = "new" THEN initRuns + 1 ELSE initRuns
           /\ ret' = [NoRet EXCEPT !.gen = IF ver = 1 THEN "v1" ELSE "v6",
                                   !.hyph = WithHyphens(formatted), !.b = b,
                                   !.val = Render(api, b, WithHyphens(formatted)),
                                   !.rdOk = IF first = << >> THEN TRUE
                                            ELSE first[2].ok /\ first[3].ok,
                                   !.nows = IF first # << >> /\ ~first[3].ok
                                            THEN << now, first[4] >> ELSE << now >>]
    /\ onceInit' = "done"
    /\ UNCHANGED << mu, pc, loc, issued, peer, dec, fmt, lay, nap, stamp >>

\* Uuid(formatted...) and UuidV4(formatted...): newV4() rendered.
RandomV4(api, formatted, rd, now1, now2) ==
    /\ ret = NoRet
    /\ rd.ok => now1 = Instant(0) /\ now2 = Instant(0)
    /\ LET b == newV4(rd, now1, now2)
       IN  ret' = [NoRet EXCEPT !.gen = "v4", !.hyph = WithHyphens(formatted), !.b = b,
                                !.val = Render(api, b, WithHyphens(formatted)),
                                !.rdOk = rd.ok, !.nows = << now1, now2 >>]
    /\ UNCHANGED << onceInit, nodeIDData, clockSeq, mu, lastTime, pc, loc, calls,
                    issued, wraps, initRuns, peer, dec, fmt, lay, nap, stamp >>

\* UuidV7(formatted...): newV7() rendered.
UnixTimeV7(api, formatted, now, rd, nowF) ==
    /\ ret = NoRet
    /\ rd.ok => nowF = now
    /\ LET b == newV7(now, rd, nowF)
       IN  ret' = [NoRet EXCEPT !.gen = "v7", !.hyph = WithHyphens(formatted), !.b = b,
                                !.val = Render(api, b, WithHyphens(formatted)),
                                !.rdOk = rd.ok, !.nows = << now, nowF >>]
    /\ UNCHANGED << onceInit, nodeIDData, clockSeq, mu, lastTime, pc, loc, calls,
                    issued, wraps, initRuns, peer, dec, fmt, lay, nap, stamp >>

\* The (string, error) of a name-based call as a returned value.
NamedRet(gen, hyph, namespace, data, r, payload) ==
    [NoRet EXCEPT !.gen = gen, !.hyph = hyph, !.val = r.val, !.err = r.err,
                  !.b = IF r.err THEN << >> ELSE payload,
                  !.ns = namespace, !.data = data]

\* A variant of NamedV3 that hashes the clock sequence with the data.
NamedV3_Stateful(api, namespace, data, formatted) ==
    /\ ret = NoRet
    /\ LET hyph == WithHyphens(formatted)
           salted == data \o << clockSeq % 256 >>
           r == UuidV3(namespace, salted, formatted)
       IN  ret' = NamedRet("v3", hyph, namespace, data, r, V3Payload(namespace, salted))
    /\ UNCHANGED << onceInit, nodeIDData, clockSeq, mu, lastTime, pc, loc, calls,
                    issued, wraps, initRuns, peer, dec, fmt, lay, nap, stamp >>

\* UuidV3(namespace, data, formatted...), and UuidV3Formatted / UuidV3 of the
\* legacy API.
NamedV3(api, namespace, data, formatted) ==
    /\ ret = NoRet
    /\ LET hyph == WithHyphens(formatted)
           r == IF api = "variadic" THEN UuidV3(namespace, data, formatted)
                ELSE IF hyph THEN UuidV3Formatted(namespace, data)
                ELSE UuidV3Stripped(namespace, data)
       IN  ret' = NamedRet("v3", hyph, namespace, data, r, V3Payload(namespace, data))
    /\ UNCHANGED << onceInit, nodeIDData, clockSeq, mu, lastTime, pc, loc, calls,
                    issued, wraps, initRuns, peer, dec, fmt, lay, nap, stamp >>

\* UuidV5(namespace, data, formatted...), and UuidV5Formatted / UuidV5 of the
\* legacy API.
NamedV5(api, namespace, data, formatted) ==
    /\ ret = NoRet
    /\ LET hyph == WithHyphens(formatted)
           r == IF api = "variadic" THEN UuidV5(namespace, data, formatted)
                ELSE IF hyph THEN UuidV5Formatted(namespace, data)
                ELSE UuidV5Stripped(namespace, data)
       IN  ret' = NamedRet("v5", hyph, namespace, data, r, V5Payload(namespace, data))
    /\ UNCHANGED << onceInit, nodeIDData, clockSeq, mu, lastTime, pc, loc, calls,
                    issued, wraps, initRuns, peer, dec, fmt, lay, nap, stamp >>

\* The caller takes the returned value.
Return ==
    /\ ret # NoRet
    /\ ret' = NoRet
    /\ UNCHANGED << onceInit, nodeIDData, clockSeq, mu, lastTime, pc, loc, calls,
                    issued, wraps, initRuns, peer, dec, fmt, lay, nap, stamp >>

\* The environments initState can meet: the outcome of net.Interfaces(), of
\* rand.Read(nodeIDData[:]) when no hardware address is adopted, of rand.Read(b[:])
\* and the clock reading of its fallback.
FirstInputs ==
    { in \in InterfaceOutcomes \X RandOutcomes(6) \X RandOutcomes(2) \X ClockInstants :
        /\ systemNodeID(in[1]).ok => in[2] = [ok |-> TRUE, buf |-> RandBytes(6, 0)]
        /\ in[3].ok => in[4] = Instant(0) }

NextGen ==
    \/ \E api \in Apis, ver \in {1, 6}, formatted \in FormattedArgs,
          first \in FirstInputs \cup { << >> }, now \in ClockInstants :
            TimeBased(api, ver, formatted, first, now)
    \/ \E api \in Apis, formatted \in FormattedArgs, rd \in RandOutcomes(16),
          now1 \in ClockInstants, now2 \in ClockInstants :
            RandomV4(api, formatted, rd, now1, now2)
    \/ \E api \in Apis, formatted \in FormattedArgs, now \in ClockInstants,
          rd \in RandOutcomes(10), nowF \in ClockInstants :
            UnixTimeV7(api, formatted, now, rd, nowF)
    \/ \E api \in Apis, namespace \in Namespaces, data \in DataArgs,
          formatted \in FormattedArgs : NamedV3(api, namespace, data, formatted)
    \/ \E api \in Apis, namespace \in Namespaces, data \in DataArgs,
          formatted \in FormattedArgs : NamedV5(api, namespace, data, formatted)
    \/ Return

\* One caller using every generator of the package, one call after the other; a
\* call is counted when it is time-based.
SpecGen == Init /\ [][NextGen]_vars

\* ------------------------------------------- two processes, one after the other
\* The process ends holding a name-based result and another process starts: the
\* package state is that of a fresh process; the result of the first and the
\* clock state it was computed under are kept for comparison.
Restart ==
    /\ peer = NoPeer
    /\ ret.gen \in { "v3", "v5" }
    /\ peer' = [res |-> ret, seq |-> clockSeq, last |-> lastTime]
    /\ ret' = NoRet
    /\ onceInit' = "new"
    /\ nodeIDData' = ZeroBytes(6)
    /\ clockSeq' = 0
    /\ lastTime' = ZeroWord
    /\ calls' = 0
    /\ wraps' = 0
    /\ initRuns' = 0
    /\ UNCHANGED << mu, pc, loc, issued, dec, fmt, lay, nap, stamp >>

\* The environments of initState met by the two processes: a hardware address and
\* a clock sequence seeded with 0x3FFF, or every source failing.
PairFirstInputs ==
    { in \in FirstInputs :
        \/ systemNodeID(in[1]).ok /\ Len(in[1].hw) = 3
              /\ in[3] = [ok |-> TRUE, buf |-> RandBytes(2, 1)]
        \/ in[1].err /\ in[2] = [ok |-> FALSE, buf |-> ZeroBytes(6)]
              /\ in[3] = [ok |-> FALSE, buf |-> ZeroBytes(2)] }

\* The namespaces of 16 bytes, and the data argument "name".
PairNamespaces == { ns \in Namespaces : Len(ns) = 16 }

PairData == { << 110, 97, 109, 101 >> }

NextPair ==
    \/ \E ver \in {1, 6}, first \in PairFirstInputs \cup { << >> }, now \in ClockInstants :
            TimeBased("variadic", ver, << >>, first, now)
    \/ \E rd \in RandOutcomes(16) : RandomV4("variadic", << >>, rd, Instant(0), Instant(0))
    \/ \E api \in Apis, namespace \in PairNamespaces, data \in PairData,
          formatted \in { << >>, << TRUE >> } : NamedV3(api, namespace, data, formatted)
    \/ \E api \in Apis, namespace \in PairNamespaces, data \in PairData,
          formatted \in { << >>, << TRUE >> } : NamedV5(api, namespace, data, formatted)
    \/ Return
    \/ Restart

\* Two processes run one after the other; each calls the generators in any order.
SpecPair == Init /\ [][NextPair]_vars

\* ------------------------------------------------------ the decimal family
\* Durations and instants are <<sec, nsec>>: time.Nanosecond, time.Microsecond,
\* time.Second.
Nanosecond == << 0, 1 >>

Microsecond == << 0, 1000 >>

Second == << 1, 0 >>

\* now + d.
AddDur(now, d) ==
    LET n == now[2] + d[2]
    IN  << now[1] + d[1] + n \div 1000000000, n % 1000000000 >>

\* a is not after b.
InstantLeq(a, b) == a[1] < b[1] \/ (a[1] = b[1] /\ a[2] <= b[2])

decimals == << "0", "1", "2", "3", "4", "5", "6", "7", "8", "9" >>

\* v in n decimal digits, zero-padded.
RECURSIVE Digits(_, _)
Digits(v, n) ==
    IF n = 0 THEN << >> ELSE Append(Digits(v \div 10, n - 1), decimals[(v % 10) + 1])

\* strconv.FormatInt(v, 10) for v >= 0.
RECURSIVE FormatInt(_)
FormatInt(v) ==
    IF v < 10 THEN << decimals[v + 1] >>
    ELSE Append(FormatInt(v \div 10), decimals[(v % 10) + 1])

\* The UTC calendar date of a day counted from 1970-01-01: [y, m, d].
CivilDate(days) ==
    LET z   == days + 719468
        era == z \div 146097
        doe == z - era * 146097
        yoe == (doe - doe \div 1460 + doe \div 36524 - doe \div 146096) \div 365
        doy == doe - (365 * yoe + yoe \div 4 - yoe \div 100)
        mp  == (5 * doy + 2) \div 153
        m   == IF mp < 10 THEN mp + 3 ELSE mp - 9
    IN  [y |-> yoe + era * 400 + (IF m <= 2 THEN 1 ELSE 0),
         m |-> m,
         d |-> doy - (153 * mp + 2) \div 5 + 1]

\* now.UTC().Format("20060102150405.0000000"): date and time of day in 14 digits,
\* a point, and the fraction of the second in 7 digits (units of 100 ns).
Format(now) ==
    LET date == CivilDate(now[1] \div 86400)
        tod  == now[1] % 86400
    IN  Digits(date.y, 4) \o Digits(date.m, 2) \o Digits(date.d, 2)
            \o Digits(tod \div 3600, 2) \o Digits((tod % 3600) \div 60, 2)
            \o Digits(tod % 60, 2) \o << "." >> \o Digits(now[2] \div 100, 7)

\* strings.ReplaceAll(id, ".", "").
RemoveDots(id) == SelectSeq(id, LAMBDA c : c # ".")

\* r, _ := rand.Prime(rand.Reader, 64): a prime of 64 bits with its two top bits
\* set (the smallest and the largest are offered), or nil when the source fails.
PrimeOutcomes ==
    { [ok |-> TRUE, digits |-> << "1", "3", "8", "3", "5", "0", "5", "8", "0", "5",
                                  "5", "2", "8", "2", "1", "6", "3", "7", "2", "9" >>],
      [ok |-> TRUE, digits |-> << "1", "8", "4", "4", "6", "7", "4", "4", "0", "7",
                                  "3", "7", "0", "9", "5", "5", "1", "5", "5", "7" >>],
      [ok |-> FALSE, digits |-> << >>] }

\* r.String(): the decimal digits of r, and "<nil>" for the nil *big.Int.
PrimeString(r) == IF r.ok THEN r.digits ELSE << "<", "n", "i", "l", ">" >>

\* The outcome of a call: it returned val, or it panicked.
Value(val) == [panic |-> FALSE, val |-> val]

Panic == [panic |-> TRUE, val |-> << >>]

\* The loop of formatWithHyphens from group i on: pos characters of s are
\* written to out.  The result is [out, pos, panic] when the loop ends or breaks;
\* the slice s[pos:end] panics when end is below pos (pos stays in 0..len(s)).
RECURSIVE GroupLoop(_, _, _, _, _)
GroupLoop(s, groups, i, pos, out) ==
    IF i > Len(groups) THEN [out |-> out, pos |-> pos, panic |-> FALSE]
    ELSE LET sep == IF i > 1 THEN out \o << "-" >> ELSE out
             to  == IF pos + groups[i] > Len(s) THEN Len(s) ELSE pos + groups[i]
             wr  == sep \o SubSeq(s, pos + 1, to)
         IN  IF to < pos THEN [out |-> sep, pos |-> pos, panic |-> TRUE]
             ELSE IF to >= Len(s) THEN [out |-> wr, pos |-> to, panic |-> FALSE]
             ELSE GroupLoop(s, groups, i + 1, to, wr)

\* A variant of formatWithHyphens that writes no separator.
formatWithHyphens_Plain(s, groups) ==
    IF Len(s) + Len(groups) - 1 < 0 THEN Panic ELSE Value(s)

\* A variant of formatWithHyphens that writes a separator before the characters
\* the groups did not reach.
formatWithHyphens_SepRest(s, groups) ==
    IF Len(s) + Len(groups) - 1 < 0 THEN Panic
    ELSE LET l == GroupLoop(s, groups, 1, 0, << >>)
         IN  IF l.panic THEN Panic
             ELSE IF l.pos < Len(s)
                  THEN Value(l.out \o << "-" >> \o SubSeq(s, l.pos + 1, Len(s)))
             ELSE Value(l.out)

\* formatWithHyphens(s, groups): b.Grow(len(s) + len(groups) - 1) panics on a
\* negative count, then the loop, then the characters the groups did not reach.
formatWithHyphens(s, groups) ==
    IF Len(s) + Len(groups) - 1 < 0 THEN Panic
    ELSE LET l == GroupLoop(s, groups, 1, 0, << >>)
         IN  IF l.panic THEN Panic
             ELSE IF l.pos < Len(s) THEN Value(l.out \o SubSeq(s, l.pos + 1, Len(s)))
             ELSE Value(l.out)

\* The body the four identifier functions share after their sleep: the prime r, the
\* clock reading now, s := id[0:n] (a slice beyond len(id) panics), the groups.
TimePrefixed(r, now, n, groups, formatted) ==
    LET id == RemoveDots(Format(now)) \o PrimeString(r)
    IN  IF n > Len(id) THEN Panic
        ELSE LET s == SubSeq(id, 1, n)
             IN  IF WithHyphens(formatted) THEN formatWithHyphens(s, groups) ELSE Value(s)

HumanUid(r, now, formatted) == TimePrefixed(r, now, 32, << 8, 4, 4, 16 >>, formatted)

NanoUid(r, now, formatted) == TimePrefixed(r, now, 23, << 8, 6, 6, 3 >>, formatted)

\* A variant of MicroUid that keeps 17 characters.
MicroUid_Millis(r, now, formatted) == TimePrefixed(r, now, 17, << 8, 6, 3 >>, formatted)

MicroUid(r, now, formatted) == TimePrefixed(r, now, 20, << 8, 6, 6 >>, formatted)

SecUid(r, now, formatted) == TimePrefixed(r, now, 14, << 8, 6 >>, formatted)

\* strconv.FormatInt(now.Unix(), 10).
Timestamp(now) == Value(FormatInt(now[1]))

\* A variant of TimestampMicro that counts milliseconds.
TimestampMicro_Millis(now) ==
    Value(FormatInt(now[1]) \o Digits(now[2] \div 1000000, 3))

\* strconv.FormatInt(now.UnixMicro(), 10): for now.Unix() >= 1 the digits of the
\* seconds followed by the six digits of the microseconds within the second.
TimestampMicro(now) == Value(FormatInt(now[1]) \o Digits(now[2] \div 1000, 6))

\* strconv.FormatInt(now.UnixNano(), 10): for now.Unix() >= 1 the digits of the
\* seconds followed by the nine digits of the nanoseconds within the second.
TimestampNano(now) == Value(FormatInt(now[1]) \o Digits(now[2], 9))

\* The duration each function sleeps before it generates.
SleepOf(fn) ==
    CASE fn \in { "HumanUid", "NanoUid", "TimestampNano" } -> Nanosecond
      [] fn \in { "MicroUid", "TimestampMicro" } -> Microsecond
      [] fn \in { "SecUid", "Timestamp" } -> Second

\* The package state of the UUID engine, which the decimal family does not touch.
engineVars == << onceInit, nodeIDData, clockSeq, mu, lastTime, pc, loc, calls, issued,
                 wraps, initRuns, ret, peer >>

\* A call of the decimal family panicked: the process is gone.
Aborted == \E i \in 1..Len(dec) : dec[i].panic

\* What the caller holds of a call of fn: the prime outcome r and the clock
\* reading at it was given, and its outcome out.
Held(fn, r, at, formatted, out) ==
    [fn |-> fn, hyph |-> WithHyphens(formatted), r |-> r, at |-> at,
     panic |-> out.panic, val |-> out.val]

\* One call of each function: its sleep, then r the outcome of rand.Prime and now
\* the reading of the clock.  The caller holds at most two outcomes at a time.
CallHumanUid(r, now, formatted) ==
    /\ Len(dec) < 2
    /\ ~Aborted
    /\ dec' = Append(dec, Held("HumanUid", r, now, formatted, HumanUid(r, now, formatted)))
    /\ UNCHANGED << engineVars, fmt, lay, nap, stamp >>

CallNanoUid(r, now, formatted) ==
    /\ Len(dec) < 2
    /\ ~Aborted
    /\ dec' = Append(dec, Held("NanoUid", r, now, formatted, NanoUid(r, now, formatted)))
    /\ UNCHANGED << engineVars, fmt, lay, nap, stamp >>

CallMicroUid(r, now, formatted) ==
    /\ Len(dec) < 2
    /\ ~Aborted
    /\ dec' = Append(dec, Held("MicroUid", r, now, formatted, MicroUid(r, now, formatted)))
    /\ UNCHANGED << engineVars, fmt, lay, nap, stamp >>

CallSecUid(r, now, formatted) ==
    /\ Len(dec) < 2
    /\ ~Aborted
    /\ dec' = Append(dec, Held("SecUid", r, now, formatted, SecUid(r, now, formatted)))
    /\ UNCHANGED << engineVars, fmt, lay, nap, stamp >>

\* The timestamp functions draw no prime and take no argument.
NoPrime == [ok |-> TRUE, digits |-> << >>]

CallTimestamp(now) ==
    /\ Len(dec) < 2
    /\ ~Aborted
    /\ dec' = Append(dec, Held("Timestamp", NoPrime, now, << >>, Timestamp(now)))
    /\ UNCHANGED << engineVars, fmt, lay, nap, stamp >>

CallTimestampMicro(now) ==
    /\ Len(dec) < 2
    /\ ~Aborted
    /\ dec' = Append(dec, Held("TimestampMicro", NoPrime, now, << >>, TimestampMicro(now)))
    /\ UNCHANGED << engineVars, fmt, lay, nap, stamp >>

CallTimestampNano(now) ==
    /\ Len(dec) < 2
    /\ ~Aborted
    /\ dec' = Append(dec, Held("TimestampNano", NoPrime, now, << >>, TimestampNano(now)))
    /\ UNCHANGED << engineVars, fmt, lay, nap, stamp >>

\* The caller lets go of the older outcome.
Discard ==
    /\ dec # << >>
    /\ ~Aborted
    /\ dec' = Tail(dec)
    /\ UNCHANGED << engineVars, fmt, lay, nap, stamp >>

\* The clock readings offered to the decimal family, in any order: two in the same
\* tick of 100 ns, 1 us and 1 s later (into the next year), and the two around the
\* second in which the Unix time takes its tenth digit.
DecInstants ==
    { << BaseSec, 150 >>, << BaseSec, 151 >>, << BaseSec, 1150 >>, << BaseSec + 1, 150 >>,
      << 999999999, 999999999 >>, << 1000000000, 0 >> }

NextDec ==
    \/ \E r \in PrimeOutcomes, now \in DecInstants, formatted \in FormattedArgs :
            CallHumanUid(r, now, formatted)
    \/ \E r \in PrimeOutcomes, now \in DecInstants, formatted \in FormattedArgs :
            CallNanoUid(r, now, formatted)
    \/ \E r \in PrimeOutcomes, now \in DecInstants, formatted \in FormattedArgs :
            CallMicroUid(r, now, formatted)
    \/ \E r \in PrimeOutcomes, now \in DecInstants, formatted \in FormattedArgs :
            CallSecUid(r, now, formatted)
    \/ \E now \in DecInstants : CallTimestamp(now)
    \/ \E now \in DecInstants : CallTimestampMicro(now)
    \/ \E now \in DecInstants : CallTimestampNano(now)
    \/ Discard

\* One caller of the decimal family.
SpecDec == Init /\ [][NextDec]_vars

\* ------------------------------------------------------ formatWithHyphens
\* The strings handed to formatWithHyphens: two letters and the hyphen.
FmtStrings == UNION { [1..n -> { "a", "b", "-" }] : n \in 0..MaxLen }

\* The lists of group sizes handed to it: an int may be negative or zero.
FmtGroups == UNION { [1..n -> (-1)..MaxSize] : n \in 0..MaxGroups }

\* The groups each identifier function passes to formatWithHyphens.
UidGroups(fn) ==
    CASE fn = "HumanUid" -> << 8, 4, 4, 16 >>
      [] fn = "NanoUid" -> << 8, 6, 6, 3 >>
      [] fn = "MicroUid" -> << 8, 6, 6 >>
      [] fn = "SecUid" -> << 8, 6 >>

\* fn(formatted...) at the prime outcome r and the clock reading now.
UidCall(fn, r, now, formatted) ==
    CASE fn = "HumanUid" -> HumanUid(r, now, formatted)
      [] fn = "NanoUid" -> NanoUid(r, now, formatted)
      [] fn = "MicroUid" -> MicroUid(r, now, formatted)
      [] fn = "SecUid" -> SecUid(r, now, formatted)

\* A call formatWithHyphens(s, groups) from inside the package, for any s and
\* groups of the bounded sets.
CallFormat ==
    /\ fmt = NoFmt
    /\ \E s \in FmtStrings, groups \in FmtGroups :
            LET out == formatWithHyphens(s, groups)
            IN  fmt' = [fn |-> "formatWithHyphens", s |-> s, groups |-> groups,
                        panic |-> out.panic, val |-> out.val]
    /\ UNCHANGED << engineVars, dec, lay, nap, stamp >>

\* A call fn(true) of an identifier function, for any outcome r of rand.Prime and
\* any clock reading now: s is the string it hands to formatWithHyphens (what
\* fn() returns at the same prime and clock reading).
CallFormatted(fn) ==
    /\ fmt = NoFmt
    /\ \E r \in PrimeOutcomes, now \in DecInstants :
            LET out == UidCall(fn, r, now, << TRUE >>)
            IN  fmt' = [fn |-> fn, s |-> UidCall(fn, r, now, << >>).val,
                        groups |-> UidGroups(fn), panic |-> out.panic, val |-> out.val]
    /\ UNCHANGED << engineVars, dec, lay, nap, stamp >>

\* The caller lets go of the result.
ReturnFormat ==
    /\ fmt # NoFmt
    /\ fmt' = NoFmt
    /\ UNCHANGED << engineVars, dec, lay, nap, stamp >>

NextFmt ==
    \/ CallFormat
    \/ \E fn \in { "HumanUid", "NanoUid", "MicroUid", "SecUid" } : CallFormatted(fn)
    \/ ReturnFormat

\* One caller of formatWithHyphens and of the formatted identifier functions.
SpecFmt == Init /\ [][NextFmt]_vars

\* ------------------------------------------------- the layouts, field by field
\* The word whose k least significant hexadecimal digits are f: 2^(4k) - 1.
Ones(k) == [i \in 1..16 |-> IF i > 16 - k THEN 15 ELSE 0]

\* The word 2^(4k).
OneAt(k) == [i \in 1..16 |-> IF i = 16 - k THEN 1 ELSE 0]

\* Values of t := now100ns(): 0 and 1, the two sides of the borders between the
\* fields of the layouts (bits 12, 28, 32, 48 and 60), the largest 60-bit value,
\* the constant of the epoch and the first instant of the model.
LayStamps ==
    { Ones(k) : k \in { 0, 3, 7, 8, 12, 15 } }
        \cup { OneAt(k) : k \in { 0, 3, 7, 8, 12, 15 } }
        \cup { gregorianToUnix100ns, now100ns(Instant(0)) }

\* Values of cs := clockSeq: 14 bits, around the border between its two bytes.
LaySeqs == { 0, 255, 256, 16383 }

\* Values of nodeIDData.
LayNodes == { ZeroBytes(6), RandBytes(6, 1) }

\* Values of ts := uint64(time.Now().UnixMilli()): 0 and 1, the two sides of a
\* border between bytes, 2^44, 2^48 - 1 and 2^48, and the first instant.
LayMillis ==
    { Ones(k) : k \in { 0, 2, 12 } }
        \cup { OneAt(k) : k \in { 0, 2, 11, 12 } }
        \cup { UnixMilli(Instant(0)) }

\* Values of r in newV7: what a successful read delivers, and what the fallback
\* makes of a failed one.
LayRandoms ==
    { V7Random(rd, nowF) : rd \in RandOutcomes(10), nowF \in ClockInstants }

\* newV6 builds two payloads from the values its critical section left.
LayoutV6(hyph) ==
    /\ lay = NoLay
    /\ \E t1 \in LayStamps, t2 \in LayStamps, cs1 \in LaySeqs, cs2 \in LaySeqs,
          n1 \in LayNodes, n2 \in LayNodes :
            LET b1 == V6Layout(t1, cs1, n1)
                b2 == V6Layout(t2, cs2, n2)
            IN  lay' = [fn |-> "v6", hyph |-> hyph,
                        t1 |-> t1, cs1 |-> cs1, n1 |-> n1, b1 |-> b1,
                        val1 |-> bytesToUUIDString(b1, hyph),
                        t2 |-> t2, cs2 |-> cs2, n2 |-> n2, b2 |-> b2,
                        val2 |-> bytesToUUIDString(b2, hyph)]
    /\ UNCHANGED << engineVars, dec, fmt, nap, stamp >>

\* newV7 builds two payloads from two clock readings and two draws of r.
LayoutV7(hyph) ==
    /\ lay = NoLay
    /\ \E t1 \in LayMillis, t2 \in LayMillis, r1 \in LayRandoms, r2 \in LayRandoms :
            LET b1 == V7Layout(t1, r1)
                b2 == V7Layout(t2, r2)
            IN  lay' = [fn |-> "v7", hyph |-> hyph,
                        t1 |-> t1, cs1 |-> 0, n1 |-> r1, b1 |-> b1,
                        val1 |-> bytesToUUIDString(b1, hyph),
                        t2 |-> t2, cs2 |-> 0, n2 |-> r2, b2 |-> b2,
                        val2 |-> bytesToUUIDString(b2, hyph)]
    /\ UNCHANGED << engineVars, dec, fmt, nap, stamp >>

\* newV1 builds one payload from the values its critical section left.
LayoutV1(hyph) ==
    /\ lay = NoLay
    /\ \E t \in LayStamps, cs \in LaySeqs, node \in LayNodes :
            LET b == V1Layout(t, cs, node)
            IN  lay' = [NoLay EXCEPT !.fn = "v1", !.hyph = hyph,
                                     !.t1 = t, !.cs1 = cs, !.n1 = node, !.b1 = b,
                                     !.val1 = bytesToUUIDString(b, hyph)]
    /\ UNCHANGED << engineVars, dec, fmt, nap, stamp >>

\* The caller lets go of the payloads.
ReturnLayout ==
    /\ lay # NoLay
    /\ lay' = NoLay
    /\ UNCHANGED << engineVars, dec, fmt, nap, stamp >>

NextLay ==
    \/ \E hyph \in BOOLEAN : LayoutV6(hyph)
    \/ \E hyph \in BOOLEAN : LayoutV7(hyph)
    \/ \E hyph \in BOOLEAN : LayoutV1(hyph)
    \/ ReturnLayout

\* The layouts of newV1, newV6 and newV7 applied to given field values.
SpecLay == Init /\ [][NextLay]_vars

\* ------------------------------------------- the field packer on any buffer
\* The 16-byte buffers handed to setVersion and setVariantRFC4122: byte 6 or byte 8
\* takes every value, the other bytes are all clear, all set or mixed.
StampBuffers ==
    { [i \in 1..16 |-> IF i = k THEN v ELSE RandBytes(16, f)[i]] :
        k \in { 7, 9 }, v \in 0..255, f \in 0..2 }

\* The values of ver: those the generators pass, the ends of the nibble, and two
\* ints outside it.
StampVersions == { -1, 0, 3, 4, 5, 15, 16 }

\* setVersion(b, ver) on a buffer b of the caller.  The function reads nothing but
\* its arguments; the caller tries it before the first time-based call.
CallSetVersion ==
    /\ stamp = NoStamp
    /\ ret = NoRet
    /\ calls = 0
    /\ \E b \in StampBuffers, ver \in StampVersions :
            stamp' = [fn |-> "setVersion", ver |-> ver, b |-> b, out |-> setVersion(b, ver)]
    /\ UNCHANGED << engineVars, dec, fmt, lay, nap >>

\* setVariantRFC4122(b) on a buffer b of the caller.
CallSetVariant ==
    /\ stamp = NoStamp
    /\ ret = NoRet
    /\ calls = 0
    /\ \E b \in StampBuffers :
            stamp' = [fn |-> "setVariantRFC4122", ver |-> 0, b |-> b,
                      out |-> setVariantRFC4122(b)]
    /\ UNCHANGED << engineVars, dec, fmt, lay, nap >>

\* The caller lets go of the buffer.
ReturnStamp ==
    /\ stamp # NoStamp
    /\ stamp' = NoStamp
    /\ UNCHANGED << engineVars, dec, fmt, lay, nap >>

\* One caller of the generators and of the two stamping functions, one call after
\* the other.
NextStamp ==
    \/ /\ stamp = NoStamp
       /\ \E api \in Apis, ver \in {1, 6}, formatted \in FormattedArgs,
             first \in FirstInputs \cup { << >> }, now \in ClockInstants :
               TimeBased(api, ver, formatted, first, now)
    \/ /\ stamp = NoStamp
       /\ \E api \in Apis, formatted \in FormattedArgs, rd \in RandOutcomes(16),
             now1 \in ClockInstants, now2 \in ClockInstants :
               RandomV4(api, formatted, rd, now1, now2)
    \/ /\ stamp = NoStamp
       /\ \E api \in Apis, formatted \in FormattedArgs, now \in ClockInstants,
             rd \in RandOutcomes(10), nowF \in ClockInstants :
               UnixTimeV7(api, formatted, now, rd, nowF)
    \/ /\ stamp = NoStamp
       /\ \E api \in Apis, namespace \in Namespaces, data \in DataArgs,
             formatted \in FormattedArgs : NamedV3(api, namespace, data, formatted)
    \/ /\ stamp = NoStamp
       /\ \E api \in Apis, namespace \in Namespaces, data \in DataArgs,
             formatted \in FormattedArgs : NamedV5(api, namespace, data, formatted)
    \/ stamp = NoStamp /\ Return
    \/ CallSetVersion
    \/ CallSetVariant
    \/ ReturnStamp

SpecStamp == Init /\ [][NextStamp]_vars

\* ------------------------------------- concurrent callers of SecUid/Timestamp
\* The clock advances in steps of half a second; the instant at step h.
NapInstant(h) == << BaseSec + h \div 2, 500000000 * (h % 2) + 150 >>

\* The duration d in steps of the clock.
NapSteps(d) == 2 * d[1]

\* SecUid(formatted...) is entered by caller p: time.Sleep(time.Second) starts.
\* Nothing is locked and nothing shared is written.
EnterSecUid(p, formatted) ==
    /\ nap.at[p] = "idle"
    /\ Len(nap.out[p]) < MaxNaps
    /\ nap' = [nap EXCEPT !.at[p] = "asleep",
                          !.call[p] = [fn |-> "SecUid", formatted |-> formatted,
                                       start |-> nap.clock, woke |-> 0]]
    /\ UNCHANGED << engineVars, dec, fmt, lay, stamp >>

\* Timestamp() is entered by caller p: time.Sleep(time.Second) starts.
EnterTimestamp(p) ==
    /\ nap.at[p] = "idle"
    /\ Len(nap.out[p]) < MaxNaps
    /\ nap' = [nap EXCEPT !.at[p] = "asleep",
                          !.call[p] = [fn |-> "Timestamp", formatted |-> << >>,
                                       start |-> nap.clock, woke |-> 0]]
    /\ UNCHANGED << engineVars, dec, fmt, lay, stamp >>

\* A variant of time.Sleep that returns at once.
Wake_NoSleep(p) ==
    /\ nap.at[p] = "asleep"
    /\ nap' = [nap EXCEPT !.at[p] = "awake", !.call[p].woke = nap.clock]
    /\ UNCHANGED << engineVars, dec, fmt, lay, stamp >>

\* time.Sleep(time.Second) returns: at least the duration has passed.
Wake(p) ==
    /\ nap.at[p] = "asleep"
    /\ nap.clock >= nap.call[p].start + NapSteps(SleepOf(nap.call[p].fn))
    /\ nap' = [nap EXCEPT !.at[p] = "awake", !.call[p].woke = nap.clock]
    /\ UNCHANGED << engineVars, dec, fmt, lay, stamp >>

\* What caller p keeps of a call: the window it slept in, the step of the clock
\* it read, and the outcome.
Napped(c, clock, out) ==
    [fn |-> c.fn, hyph |-> WithHyphens(c.formatted), start |-> c.start, woke |-> c.woke,
     read |-> clock, panic |-> out.panic, val |-> out.val]

\* The rest of SecUid: rand.Prime with outcome r, time.Now(), the string.
ReadSecUid(p, r) ==
    /\ nap.at[p] = "awake"
    /\ nap.call[p].fn = "SecUid"
    /\ nap' = [nap EXCEPT
                 !.at[p] = "idle",
                 !.out[p] = Append(@, Napped(nap.call[p], nap.clock,
                                SecUid(r, NapInstant(nap.clock), nap.call[p].formatted))),
                 !.call[p] = NoNap.call[p]]
    /\ UNCHANGED << engineVars, dec, fmt, lay, stamp >>

\* The rest of Timestamp: time.Now().UTC().Unix(), the string.
ReadTimestamp(p) ==
    /\ nap.at[p] = "awake"
    /\ nap.call[p].fn = "Timestamp"
    /\ nap' = [nap EXCEPT
                 !.at[p] = "idle",
                 !.out[p] = Append(@, Napped(nap.call[p], nap.clock,
                                             Timestamp(NapInstant(nap.clock)))),
                 !.call[p] = NoNap.call[p]]
    /\ UNCHANGED << engineVars, dec, fmt, lay, stamp >>

\* Half a second passes.
Tick ==
    /\ nap.clock < MaxClock
    /\ nap' = [nap EXCEPT !.clock = @ + 1]
    /\ UNCHANGED << engineVars, dec, fmt, lay, stamp >>

NextNap ==
    \/ \E p \in Procs, formatted \in FormattedArgs : EnterSecUid(p, formatted)
    \/ \E p \in Procs : EnterTimestamp(p)
    \/ \E p \in Procs : Wake(p)
    \/ \E p \in Procs, r \in PrimeOutcomes : ReadSecUid(p, r)
    \/ \E p \in Procs : ReadTimestamp(p)
    \/ Tick

\* Two concurrent callers of SecUid and Timestamp under one clock.
SpecNap == Init /\ [][NextNap]_vars

\* ------------------------------------------------ comparing returned strings
\* The byte of a character of the returned strings.
CharCode(c) ==
    CASE c = "-" -> 45 [] c = "<" -> 60 [] c = ">" -> 62
      [] c = "i" -> 105 [] c = "l" -> 108 [] c = "n" -> 110
      [] c = "a" -> 97 [] c = "b" -> 98 [] c = "c" -> 99
      [] c = "d" -> 100 [] c = "e" -> 101 [] c = "f" -> 102
      [] OTHER -> 48 + (CHOOSE d \in 0..9 : decimals[d + 1] = c)

\* a < b as Go compares strings: byte by byte, a proper prefix first.
RECURSIVE LexLess(_, _)
LexLess(a, b) ==
    IF b = << >> THEN FALSE
    ELSE IF a = << >> THEN TRUE
    ELSE IF Head(a) # Head(b) THEN CharCode(Head(a)) < CharCode(Head(b))
    ELSE LexLess(Tail(a), Tail(b))

IsDigits(str) == \A i \in 1..Len(str) : \E d \in 1..10 : str[i] = decimals[d]

\* a < b as numbers, for decimal numerals without leading zeros or of one length.
DecLess(a, b) == Len(a) < Len(b) \/ (Len(a) = Len(b) /\ LexLess(a, b))

\* ------------------------------------------------- reading an identifier back
\* The 32 hexadecimal digits of a payload, as numbers.
NibblesOf(b) ==
    [k \in 1..(2 * Len(b)) |->
        IF k % 2 = 1 THEN b[(k + 1) \div 2] \div 16 ELSE b[(k + 1) \div 2] % 16]

\* The 60-bit timestamp embedded in a v1 payload: time_hi, time_mid, time_low.
V1Time(b) ==
    LET h == NibblesOf(b) IN SubSeq(h, 14, 16) \o SubSeq(h, 9, 12) \o SubSeq(h, 1, 8)

\* The 60-bit timestamp embedded in a v6 payload.
V6Time(b) == LET h == NibblesOf(b) IN SubSeq(h, 1, 12) \o SubSeq(h, 14, 16)

\* The 14-bit clock sequence embedded in a v1 or v6 payload.
EmbeddedSeq(b) == (b[9] % 64) * 256 + b[10]

EmbeddedTime(e) == IF e.gen = "v1" THEN V1Time(e.b) ELSE V6Time(e.b)

\* (timestamp, sequence) of e1 before that of e2, lexicographically.
PairLess(e1, e2) ==
    \/ WordLess(EmbeddedTime(e1), EmbeddedTime(e2))
    \/ /\ EmbeddedTime(e1) = EmbeddedTime(e2)
       /\ EmbeddedSeq(e1.b) < EmbeddedSeq(e2.b)

\* The i-th identifier was returned before the call of the j-th was entered.
CompletedBefore(i, j) == i <= issued[j].began

VersionOf(gen) ==
    CASE gen = "v1" -> 1 [] gen = "v3" -> 3 [] gen = "v4" -> 4
      [] gen = "v5" -> 5 [] gen = "v6" -> 6 [] gen = "v7" -> 7

\* C2: every identifier returned by v1, v3, v4, v5, v6 or v7, failed random reads
\* included, has the generator's version in the high nibble of byte 6 and binary 10
\* in the top two bits of byte 8; in the string the version digit is at index 12
\* (14 with hyphens) and the digit at index 16 (19 with hyphens) is 8, 9, a or b.
C2_VersionVariant ==
    (ret.gen # "none" /\ ~ret.err) =>
        LET v == VersionOf(ret.gen)
        IN  /\ ret.b[7] \div 16 = v
            /\ ret.b[9] \div 64 = 2
            /\ ret.val[IF ret.hyph THEN 15 ELSE 13] = hextable[v + 1]
            /\ ret.val[IF ret.hyph THEN 20 ELSE 17] \in { "8", "9", "a", "b" }

\* A v7 identifier built after a failed random read that left every bit of the
\* two bytes it keeps set: the masks alone make bytes 6 and 8.
C2_Witness ==
    /\ ret.gen = "v7"
    /\ ~ret.rdOk
    /\ ret.b[7] = 127
    /\ ret.b[8] = 255

\* ------------------------------------------------------------------ C3
\* C3: UuidV3 and UuidV5, in both APIs, return a non-nil error and the empty
\* string exactly when the namespace is not 16 bytes long, and otherwise a nil
\* error and an identifier; no other generator returns an error.
C3_ErrorIffBadNamespace ==
    /\ ret.gen \in { "v3", "v5" } =>
            /\ ret.err <=> Len(ret.ns) # 16
            /\ ret.err => ret.val = << >>
            /\ ~ret.err => Len(ret.val) = (IF ret.hyph THEN 36 ELSE 32)
    /\ ret.gen \in { "v1", "v4", "v6", "v7" } => ~ret.err

\* UuidV3 refused a namespace of 17 bytes.
C3_Witness ==
    /\ ret.gen = "v3"
    /\ Len(ret.ns) = 17
    /\ ret.err
    /\ ret.val = << >>

HyphenAt == { 9, 14, 19, 24 }

LowerHex == { hextable[i] : i \in 1..16 }

\* C5: the hyphenated rendering of a payload is 36 characters with "-" exactly at
\* indices 8, 13, 18, 23 and lowercase hexadecimal digits elsewhere, the other
\* rendering is 32 lowercase hexadecimal digits, removing the hyphens of the first
\* gives the second, and every generator returns the rendering asked for.
C5_Rendering ==
    (ret.gen # "none" /\ ~ret.err) =>
        LET h == bytesToUUIDString(ret.b, TRUE)
            n == bytesToUUIDString(ret.b, FALSE)
        IN  /\ Len(h) = 36
            /\ \A i \in 1..36 : (h[i] = "-") <=> (i \in HyphenAt)
            /\ \A i \in (1..36) \ HyphenAt : h[i] \in LowerHex
            /\ Len(n) = 32
            /\ \A i \in 1..32 : n[i] \in LowerHex
            /\ RemoveHyphens(h) = n
            /\ ret.val = (IF ret.hyph THEN h ELSE n)

\* A hyphenated v1 identifier whose node part renders with letters.
C5_Witness ==
    /\ ret.gen = "v1"
    /\ ret.hyph
    /\ Len(ret.val) = 36
    /\ ret.val[36] = "f"

WidthOf(fn) ==
    CASE fn = "HumanUid" -> 32 [] fn = "NanoUid" -> 23
      [] fn = "MicroUid" -> 20 [] fn = "SecUid" -> 14

UidFns == { "HumanUid", "NanoUid", "MicroUid", "SecUid" }

\* C6: for every clock reading and every outcome of rand.Prime, the failed one
\* included, HumanUid, NanoUid, MicroUid and SecUid return normally, and without
\* hyphens the string has 32, 23, 20 and 14 characters, all decimal digits.
C6_FixedWidthDigits ==
    \A i \in 1..Len(dec) :
        dec[i].fn \in UidFns =>
            /\ ~dec[i].panic
            /\ ~dec[i].hyph => ( /\ Len(dec[i].val) = WidthOf(dec[i].fn)
                                 /\ IsDigits(dec[i].val) )

\* ------------------------------------------------------------------ C8
\* The two outcomes held come from the same function called the same way, and
\* both calls returned.
SamePair(fns) ==
    /\ Len(dec) = 2
    /\ dec[1].fn = dec[2].fn
    /\ dec[1].fn \in fns
    /\ dec[1].hyph = dec[2].hyph
    /\ ~dec[1].panic
    /\ ~dec[2].panic

\* The second reading of the clock is at least the function's quantum after the
\* first.
QuantumApart == InstantLeq(AddDur(dec[1].at, SleepOf(dec[1].fn)), dec[2].at)

\* C8: two calls of SecUid (of MicroUid) whose clock readings are at least 1 s
\* (1 us) apart, the later reading second: the later string is the greater one,
\* byte-wise and, without hyphens, as a number, whatever the primes were.
C8_CoarseOrdered ==
    (SamePair({ "SecUid", "MicroUid" }) /\ QuantumApart) =>
        /\ LexLess(dec[1].val, dec[2].val)
        /\ ~dec[1].hyph => DecLess(dec[1].val, dec[2].val)

\* Two calls of MicroUid exactly 1 us apart, the first with the larger prime.
C8_Witness ==
    /\ SamePair({ "MicroUid" })
    /\ dec[2].at = AddDur(dec[1].at, Microsecond)
    /\ dec[1].r.ok
    /\ dec[2].r.ok
    /\ LexLess(PrimeString(dec[2].r), PrimeString(dec[1].r))
    /\ LexLess(dec[1].val, dec[2].val)

\* ------------------------------------------------------------------ C9
\* C9: two calls of NanoUid (of HumanUid) whose clock readings are at least 1 ns
\* apart, the later reading second, both primes generated: the strings differ and
\* the earlier is the smaller one byte-wise.
C9_FineOrdered ==
    (SamePair({ "NanoUid", "HumanUid" }) /\ QuantumApart /\ dec[1].r.ok /\ dec[2].r.ok) =>
        /\ dec[1].val # dec[2].val
        /\ LexLess(dec[1].val, dec[2].val)

RECURSIVE SumSeq(_)
SumSeq(g) == IF g = << >> THEN 0 ELSE Head(g) + SumSeq(Tail(g))

\* The 1-based indices of the hyphens of a string.
Hyphens(val) == { i \in 1..Len(val) : val[i] = "-" }

\* C11: for every string s without a hyphen and every list of group sizes that
\* sums to len(s), formatWithHyphens(s, groups) returns, and removing all hyphens
\* from what it returns yields exactly s.
C11_RoundTrip ==
    (/\ fmt.fn = "formatWithHyphens"
     /\ Hyphens(fmt.s) = {}
     /\ SumSeq(fmt.groups) = Len(fmt.s))
        => (~fmt.panic /\ RemoveHyphens(fmt.val) = fmt.s)

\* ------------------------------------------------------------------ C12
\* The 1-based indices at which groups g1..gk put their k - 1 separators: after
\* the first j groups and the j - 1 separators before them.
SeparatorsOf(groups) ==
    { SumSeq(SubSeq(groups, 1, j)) + j : j \in 1..(Len(groups) - 1) }

\* The characters of val at the indices outside P, in order.
Outside(val, P) ==
    LET F[i \in 0..Len(val)] ==
            IF i = 0 THEN << >>
            ELSE IF i \in P THEN F[i - 1] ELSE Append(F[i - 1], val[i])
    IN  F[Len(val)]

\* The length and the 1-based separator indices of fn(true).
FormattedShape(fn) ==
    CASE fn = "HumanUid" -> [len |-> 35, at |-> { 9, 14, 19 }]
      [] fn = "NanoUid" -> [len |-> 26, at |-> { 9, 16, 23 }]
      [] fn = "MicroUid" -> [len |-> 22, at |-> { 9, 16 }]
      [] fn = "SecUid" -> [len |-> 15, at |-> { 9 }]

\* C12: for every string s and every list of positive group sizes g1..gk (k >= 1)
\* summing to len(s), formatWithHyphens returns a string of length len(s) + k - 1
\* with a hyphen at each of the (0-based) indices g1, g1 + g2 + 1, ... and the
\* characters of s in order at every other index; when s has no hyphen these are
\* the only hyphens.  Hence a returned HumanUid(true) is 35 long with hyphens at
\* 8, 13, 18, NanoUid(true) 26 long with 8, 15, 22, MicroUid(true) 22 long with
\* 8, 15 and SecUid(true) 15 long with 8.
C12_HyphenPositions ==
    /\ (/\ fmt.fn # "none"
        /\ Len(fmt.groups) >= 1
        /\ \A j \in 1..Len(fmt.groups) : fmt.groups[j] > 0
        /\ SumSeq(fmt.groups) = Len(fmt.s)
        /\ fmt.fn = "formatWithHyphens" \/ ~fmt.panic)
            => /\ ~fmt.panic
               /\ Len(fmt.val) = Len(fmt.s) + Len(fmt.groups) - 1
               /\ \A i \in SeparatorsOf(fmt.groups) : fmt.val[i] = "-"
               /\ Outside(fmt.val, SeparatorsOf(fmt.groups)) = fmt.s
               /\ Hyphens(fmt.s) = {} => Hyphens(fmt.val) = SeparatorsOf(fmt.groups)
    /\ (fmt.fn \in { "HumanUid", "NanoUid", "MicroUid", "SecUid" } /\ ~fmt.panic)
            => /\ Len(fmt.val) = FormattedShape(fmt.fn).len
               /\ Hyphens(fmt.val) = FormattedShape(fmt.fn).at
               /\ SumSeq(fmt.groups) = Len(fmt.s)

\* Three groups of one character each were written with two separators.
C12_Witness ==
    /\ fmt.fn = "formatWithHyphens"
    /\ fmt.s = << "a", "b", "a" >>
    /\ fmt.groups = << 1, 1, 1 >>
    /\ fmt.val = << "a", "-", "b", "-", "a" >>

\* ------------------------------------------------------------------ C13
\* Bytes 10-15 of a payload: the node identifier.
NodeOf(b) == SubSeq(b, 11, 16)

\* The callers that are past onceInit.Do: they go on to read the clock sequence
\* (in the critical section) and the node identifier (when building).
PastOnce == { p \in Procs : pc[p] \in { "lock", "update", "load", "unlock", "build" } }

\* The callers that are inside initState.
InInit == { p \in Procs : pc[p] \in { "initNode", "initSeq" } }

\* C13: under any interleaving of concurrent first calls of newV1/newV6, initState
\* runs exactly once (at most one caller is ever inside it, and it has completed
\* once before any caller gets past onceInit.Do), so no caller reads the clock
\* sequence or the node identifier before that run has completed, and every v1/v6
\* identifier of the process carries the same six node bytes in bytes 10-15.
C13_InitOnce ==
    /\ initRuns <= 1
    /\ Cardinality(InInit) <= 1
    /\ (onceInit = "running") <=> (InInit # {})
    /\ (onceInit = "done") <=> (initRuns = 1)
    /\ (PastOnce # {} \/ issued # << >>) => (onceInit = "done" /\ initRuns = 1)
    /\ \A i \in 1..Len(issued) : NodeOf(issued[i].b) = nodeIDData

\* Two calls that overlapped (the second to complete began before the first had
\* completed) have both returned, after the one run of initState.
C13_Witness ==
    /\ Len(issued) = 2
    /\ issued[2].began = 0
    /\ initRuns = 1
    /\ NodeOf(issued[1].b) = NodeOf(issued[2].b)

\* ------------------------------------------------------------------ C14
\* The callers between mu.Lock() and mu.Unlock().
InCritical == { p \in Procs : pc[p] \in { "update", "load", "unlock" } }

\* C14: at most one caller is between mu.Lock and mu.Unlock at any time (the
\* mutex is held by exactly that caller), and the (timestamp, sequence) pair a
\* caller embeds in its identifier is exactly (lastTime, clockSeq) as its own
\* critical section left them, whatever other callers did to them afterwards.
C14_CriticalSection ==
    /\ Cardinality(InCritical) <= 1
    /\ \A p \in Procs : (mu = p) <=> (p \in InCritical)
    /\ \A p \in Procs : pc[p] = "unlock" => (loc[p].t = lastTime /\ loc[p].cs = clockSeq)
    /\ \A p \in Procs : pc[p] = "build" => loc[p].left = << loc[p].t, loc[p].cs >>
    /\ \A i \in 1..Len(issued) :
            /\ << 0 >> \o EmbeddedTime(issued[i]) = issued[i].left[1]
            /\ EmbeddedSeq(issued[i].b) = issued[i].left[2]

\* An identifier was issued whose pair is no longer the package's: another caller
\* has been through the critical section since and has changed clockSeq.
C14_Witness ==
    \E i \in 1..Len(issued) :
        /\ EmbeddedSeq(issued[i].b) # clockSeq
        /\ issued[i].began = 0
        /\ i = 2

\* ------------------------------------------------------------------ C15
\* C15: whenever no 6-byte hardware identifier is adopted (none found, or the
\* enumeration of the interfaces fails), the node identifier resolved by initState
\* has the least-significant bit of its first byte set to 1, for every outcome of
\* the random source.
C15_MulticastBit ==
    \A p \in Procs :
        (pc[p] = "initSeq" /\ ~loc[p].ok) => nodeIDData[1] % 2 = 1

\* ------------------------------------------------------------------ C16
\* A word below 2^60 and a word below 2^48.
Is60Bit(w) == w[1] = 0

Is48Bit(w) == \A i \in 1..4 : w[i] = 0

\* C16: for any two 60-bit timestamps t1 < t2 and any clock sequences and node
\* bytes, the hexadecimal string of the v6 payload built from t1 is
\* lexicographically smaller than the one built from t2 (with or without hyphens);
\* for equal timestamps and clock sequences s1 < s2 the one with s1 is smaller.
C16_V6Ordered ==
    (lay.fn = "v6" /\ Is60Bit(lay.t1) /\ Is60Bit(lay.t2))
        => /\ WordLess(lay.t1, lay.t2) => LexLess(lay.val1, lay.val2)
           /\ (lay.t1 = lay.t2 /\ lay.cs1 < lay.cs2) => LexLess(lay.val1, lay.val2)

\* Timestamps on the two sides of bit 28, the smaller with the larger clock
\* sequence and node, and hyphens written: the strings are in order.
C16_Witness ==
    /\ lay.fn = "v6"
    /\ lay.hyph
    /\ lay.t1 = Ones(7)
    /\ lay.t2 = OneAt(7)
    /\ lay.cs1 = 16383
    /\ lay.cs2 = 0
    /\ lay.n1 = RandBytes(6, 1)
    /\ lay.n2 = ZeroBytes(6)
    /\ LexLess(lay.val1, lay.val2)

\* ------------------------------------------------------------------ C17
\* C17: for any two Unix times in ms m1 < m2 below 2^48, the hexadecimal string of
\* the v7 payload built at m1 is lexicographically smaller than the one built at
\* m2, whatever the random or fallback bytes; bytes 0-5 hold the timestamp, most
\* significant byte first.
C17_V7Ordered ==
    (lay.fn = "v7" /\ Is48Bit(lay.t1) /\ Is48Bit(lay.t2))
        => /\ WordLess(lay.t1, lay.t2) => LexLess(lay.val1, lay.val2)
           /\ SubSeq(NibblesOf(lay.b1), 1, 12) = SubSeq(lay.t1, 5, 16)
           /\ SubSeq(NibblesOf(lay.b2), 1, 12) = SubSeq(lay.t2, 5, 16)

\* Times on the two sides of a byte border, the earlier with all random bits set
\* and the later with none: the strings are in order.
C17_Witness ==
    /\ lay.fn = "v7"
    /\ lay.t1 = Ones(2)
    /\ lay.t2 = OneAt(2)
    /\ lay.n1 = RandBytes(10, 1)
    /\ lay.n2 = ZeroBytes(10)
    /\ LexLess(lay.val1, lay.val2)

\* ------------------------------------------------------------------ C18
\* C18: in a v1 payload built from t and cs, bytes 0-3 hold the low 32 bits of t,
\* bytes 4-5 the next 16 bits, the low 12 bits of bytes 6-7 the top 12 bits of the
\* 60-bit timestamp, the low 6 bits of byte 8 the high 6 bits of cs, byte 9 its low
\* 8 bits and bytes 10-15 the node; so t (below 2^60) and the 14-bit cs are
\* recovered exactly from the payload.
C18_V1Fields ==
    lay.fn = "v1"
        => LET h == NibblesOf(lay.b1)
           IN  /\ SubSeq(h, 1, 8) = SubSeq(lay.t1, 9, 16)
               /\ SubSeq(h, 9, 12) = SubSeq(lay.t1, 5, 8)
               /\ SubSeq(h, 14, 16) = SubSeq(lay.t1, 2, 4)
               /\ lay.b1[9] % 64 = lay.cs1 \div 256
               /\ lay.b1[10] = lay.cs1 % 256
               /\ NodeOf(lay.b1) = lay.n1
               /\ Is60Bit(lay.t1) => << 0 >> \o V1Time(lay.b1) = lay.t1
               /\ EmbeddedSeq(lay.b1) = lay.cs1

\* The largest 60-bit timestamp and the largest clock sequence were laid out and
\* read back.
C18_Witness ==
    /\ lay.fn = "v1"
    /\ lay.t1 = Ones(15)
    /\ lay.cs1 = 16383
    /\ V1Time(lay.b1) = [i \in 1..15 |-> 15]
    /\ EmbeddedSeq(lay.b1) = 16383

\* ------------------------------------------------------------------ C19
\* Some caller is inside a call.
Calling == \E p \in Procs : pc[p] # "idle"

\* No deadlock: when some caller is inside a call, some caller can take a step.
NoDeadlock == Calling => ENABLED (\E p \in Procs : Step(p) \/ Lock(p))

\* C19: every call of newV1/newV6 terminates and the lock is released on every
\* path: with concurrent callers and a fair scheduler no reachable state is a
\* deadlock, the mutex is held only by a caller between mu.Lock and mu.Unlock
\* (never by one that has left the critical section or returned), and every
\* caller that starts a call eventually returns its identifier.
C19_Terminates ==
    /\ []NoDeadlock
    /\ [](\A p \in Procs : mu = p => pc[p] \in { "update", "load", "unlock" })
    /\ \A p \in Procs : (pc[p] # "idle") ~> (pc[p] = "idle")

\* A caller waits in mu.Lock() while the other caller holds the mutex.
C19_Witness ==
    \E p \in Procs : pc[p] = "lock" /\ mu \in Procs \ { p }

\* ------------------------------------------------------------------ C20
\* The step from pc "update" to "load" of caller p: it reads the clock into t and
\* updates clockSeq and lastTime.
UpdateStep(p) == pc[p] = "update" /\ pc'[p] = "load"

\* C20: each call of newV1/newV6 updates the clock state so: if the timestamp t it
\* reads is at most the stored lastTime, clockSeq becomes (clockSeq + 1) mod 2^14
\* (from 2^14 - 1 to 0, with no error); if t is greater, clockSeq is unchanged;
\* nothing else but initState changes clockSeq; and clockSeq is in 0..2^14 - 1 in
\* every reachable state, seeded from the random source or from the clock.
C20_ClockSeqRule ==
    /\ [](clockSeq \in 0..16383)
    /\ [][\A p \in Procs :
            UpdateStep(p) =>
                /\ WordLeq(loc'[p].t, lastTime) => clockSeq' = (clockSeq + 1) % 16384
                /\ ~WordLeq(loc'[p].t, lastTime) => clockSeq' = clockSeq]_vars
    /\ [][clockSeq' # clockSeq =>
            \E p \in Procs : UpdateStep(p) \/ pc[p] = "initSeq"]_vars

\* clockSeq was seeded with 2^14 - 1 and a call has wrapped it to 0.
C20_Witness == wraps = 1 /\ clockSeq = 0 /\ issued # << >>

C22_PairsDistinct ==
    Len(issued) < 16384 =>
        \A i, j \in 1..Len(issued) :
            i # j =>
                \/ EmbeddedTime(issued[i]) # EmbeddedTime(issued[j])
                \/ EmbeddedSeq(issued[i].b) # EmbeddedSeq(issued[j].b)

\* Two callers whose calls overlap have read the same clock value and differ in
\* the sequence number alone.
C22_Witness ==
    \E i, j \in 1..Len(issued) :
        /\ i < j
        /\ ~CompletedBefore(i, j)
        /\ EmbeddedTime(issued[i]) = EmbeddedTime(issued[j])
        /\ EmbeddedSeq(issued[i].b) # EmbeddedSeq(issued[j].b)

\* ------------------------------------------------------------------ C23
\* C23 as stated: when the (positive) group sizes g1..gk passed to
\* formatWithHyphens sum to less than len(s), the characters left after the last
\* group form a group of their own: the output is len(s) + k long and has a
\* separator between the k-th group and the remainder.
C23_RemainderSeparated ==
    (/\ fmt.fn = "formatWithHyphens"
     /\ Len(fmt.groups) >= 1
     /\ \A j \in 1..Len(fmt.groups) : fmt.groups[j] > 0
     /\ SumSeq(fmt.groups) < Len(fmt.s))
        => /\ ~fmt.panic
           /\ Len(fmt.val) = Len(fmt.s) + Len(fmt.groups)
           /\ fmt.val[SumSeq(fmt.groups) + Len(fmt.groups)] = "-"

\* C23 amended: when the non-negative group sizes g1..gk sum to less than len(s),
\* formatWithHyphens returns, the characters left after the last group follow it
\* with no separator, and the output has the k - 1 separators between the declared
\* groups and no other inserted character: it is len(s) + k - 1 long (len(s) for
\* k = 0), and the characters outside the separators are s in order.
C23_RemainderAppended ==
    (/\ fmt.fn = "formatWithHyphens"
     /\ \A j \in 1..Len(fmt.groups) : fmt.groups[j] >= 0
     /\ SumSeq(fmt.groups) < Len(fmt.s))
        => /\ ~fmt.panic
           /\ Len(fmt.val) = Len(fmt.s) + Len(SubSeq(fmt.groups, 2, Len(fmt.groups)))
           /\ \A i \in SeparatorsOf(fmt.groups) : fmt.val[i] = "-"
           /\ Outside(fmt.val, SeparatorsOf(fmt.groups)) = fmt.s
           /\ Hyphens(fmt.s) = {} => Hyphens(fmt.val) = SeparatorsOf(fmt.groups)

\* Two groups of one character and one character left: the remainder follows the
\* second group directly.
C23_Witness ==
    /\ fmt.fn = "formatWithHyphens"
    /\ fmt.s = << "a", "b", "a" >>
    /\ fmt.groups = << 1, 1 >>
    /\ fmt.val = << "a", "-", "b", "a" >>

\* ------------------------------------------------------------------ C24
\* C24: for every string s and every list of non-negative group sizes (lists
\* summing to more than len(s) and an empty s included), formatWithHyphens returns
\* without a panic, the characters of what it returns other than hyphens are those
\* of s in order, and, when all sizes are positive and s has no hyphen, what it
\* returns neither starts nor ends with a hyphen.
C24_NeverOutside ==
    (/\ fmt.fn = "formatWithHyphens"
     /\ \A j \in 1..Len(fmt.groups) : fmt.groups[j] >= 0)
        => /\ ~fmt.panic
           /\ RemoveHyphens(fmt.val) = RemoveHyphens(fmt.s)
           /\ (/\ \A j \in 1..Len(fmt.groups) : fmt.groups[j] > 0
               /\ Hyphens(fmt.s) = {}
               /\ fmt.val # << >>)
                  => (fmt.val[1] # "-" /\ fmt.val[Len(fmt.val)] # "-")

\* ------------------------------------------------------------------ C25
\* Calls a of one caller and b of the other slept during a common window, read
\* the clock in the same second and returned the same string.
SameWindow(a, b) ==
    /\ a.fn = b.fn
    /\ a.start < b.woke
    /\ b.start < a.woke
    /\ NapInstant(a.read)[1] = NapInstant(b.read)[1]
    /\ ~a.panic
    /\ ~b.panic
    /\ a.val = b.val

\* C25: the delay of SecUid and Timestamp orders the calls of one caller only.
\* Of two calls of the same function (called the same way) made one after the
\* other by a single caller, the second reads the clock at least a second after
\* the first and returns a different, greater string, whatever the other caller
\* does.  Nothing orders the calls of two callers: the state in which both slept
\* during the same window and returned the same string is reachable (the witness).
C25_OrderedPerCaller ==
    \A p \in Procs : \A i, j \in 1..Len(nap.out[p]) :
        (/\ i < j
         /\ nap.out[p][i].fn = nap.out[p][j].fn
         /\ nap.out[p][i].hyph = nap.out[p][j].hyph)
            => /\ nap.out[p][j].read >= nap.out[p][i].read + NapSteps(Second)
               /\ ~nap.out[p][i].panic
               /\ ~nap.out[p][j].panic
               /\ nap.out[p][i].val # nap.out[p][j].val
               /\ LexLess(nap.out[p][i].val, nap.out[p][j].val)

\* Two callers ran SecUid concurrently and got the same string, and ran Timestamp
\* concurrently and got the same string.
C25_Witness ==
    \A fn \in { "SecUid", "Timestamp" } :
        \E i \in 1..Len(nap.out[1]), j \in 1..Len(nap.out[2]) :
            /\ nap.out[1][i].fn = fn
            /\ SameWindow(nap.out[1][i], nap.out[2][j])

\* ------------------------------------------------------------------ C26
\* Buffers a and b of 16 bytes agree in every bit but the high nibble of byte 6
\* and the top two bits of byte 8.
SameUnstamped(a, b) ==
    /\ Len(a) = 16
    /\ Len(b) = 16
    /\ \A i \in (1..16) \ { 7, 9 } : a[i] = b[i]
    /\ a[7] % 16 = b[7] % 16
    /\ a[9] % 64 = b[9] % 64

\* The generators without clock state have just returned.
StatelessReturned == ret'.gen \in { "v3", "v4", "v5", "v7" } /\ ret.gen = "none"

\* C26: setVersion changes only the high nibble of byte 6 (to ver mod 16) and
\* setVariantRFC4122 only the top two bits of byte 8 (to binary 10), for every
\* 16-byte buffer; so the payloads of v3 and v5 keep the other 122 bits of the
\* digest and that of v4 the other 122 bits of the random (or fallback) buffer; and
\* the generators v3, v4, v5 and v7 leave lastTime, clockSeq, the node identifier
\* and the once-state unchanged.
C26_StampFrame ==
    /\ [](stamp.fn = "setVersion" =>
            /\ SameUnstamped(stamp.out, stamp.b)
            /\ stamp.out[9] = stamp.b[9]
            /\ stamp.out[7] \div 16 = stamp.ver % 16)
    /\ [](stamp.fn = "setVariantRFC4122" =>
            /\ SameUnstamped(stamp.out, stamp.b)
            /\ stamp.out[7] = stamp.b[7]
            /\ stamp.out[9] \div 64 = 2)
    /\ []((ret.gen = "v3" /\ ~ret.err) =>
            SameUnstamped(ret.b, SubSeq(md5Sum(ret.ns \o ret.data), 1, 16)))
    /\ []((ret.gen = "v5" /\ ~ret.err) =>
            SameUnstamped(ret.b, SubSeq(sha1Sum(ret.ns \o ret.data), 1, 16)))
    /\ [](ret.gen = "v4" =>
            IF ret.rdOk
            THEN \E rd \in RandOutcomes(16) : rd.ok /\ SameUnstamped(ret.b, rd.buf)
            ELSE SameUnstamped(ret.b, WordBytes(UnixNano(ret.nows[1]))
                                         \o WordBytes(UnixNano(ret.nows[2]))))
    /\ [][StatelessReturned =>
            UNCHANGED << lastTime, clockSeq, nodeIDData, onceInit, mu >>]_vars

\* After a time-based call has set the clock state, UuidV4 returned a payload made
\* from a buffer with every bit set: only the six stamped bits differ from it.
C26_Witness ==
    /\ initRuns = 1
    /\ lastTime # ZeroWord
    /\ ret.gen = "v4"
    /\ ret.rdOk
    /\ ret.b = [i \in 1..16 |-> IF i = 7 THEN 79 ELSE IF i = 9 THEN 191 ELSE 255]

====
